---------------------------- MODULE Spec2Model ----------------------------
(***************************************************************************)
(* Model of the PDF tools of the repository:                               *)
(*   - the page-range resolver of mergePDF.py (parse_merge_page_string)    *)
(*     and the one of splitPDF.py (parse_page_string), each called once    *)
(*     on the same arguments (Spec);                                       *)
(*   - the merge resolver run step by step by two callers (SpecCalls);     *)
(*   - one run of mergePDF.py on a configuration file: the reader of the   *)
(*     file, the merge loop, the write of the output and the summary       *)
(*     (SpecMerge).                                                        *)
(* and of the git and text tools:                                          *)
(*   - one run of syn2GH.py over the repositories it discovers (SpecSync); *)
(*   - one run of git_delbranch.py on a branch name (SpecDelBranch);       *)
(*   - one run of git_branch.py (SpecBranch);                              *)
(*   - one run of regexrepl.py on a file (SpecRepl).                       *)
(*                                                                         *)
(* A Python str is a sequence of one-character strings; None is the        *)
(* one-element sequence <<"None">>, which no str equals because its        *)
(* element is not a single character.                                      *)
(***************************************************************************)
EXTENDS Integers, Sequences, FiniteSets, TLC

VARIABLES
    page_spec,        \* the page_str argument: a str, or None
    num_input_pages,  \* the total_pages argument
    page_indices,     \* the outcome of the call: pending, a returned list, or a raised ValueError
    written,          \* ghost: the comma-separated parts page_spec was written from
    split_page_indices,  \* the outcome of splitPDF's parse_page_string on the same arguments
    ERROR_LOG,        \* the module-level list ERROR_LOG
    WARN_LOG,         \* the module-level list WARN_LOG
    frame,            \* per caller, the arguments and position of its resolver call
    local_indices,    \* per caller, the local set indices of its resolver call
    overlap,          \* ghost: a call was entered while another was in its loop
    config_file,      \* the merge configuration file: whether it exists, and its lines
    meant,            \* ghost: what the author of each line means by it
    pc,               \* where the merge run is: read, merge, summary, done, exit
    original_lines,   \* the stripped lines read so far
    config,           \* the entries parsed so far
    idx,              \* the merge loop's 0-based position in original_lines
    merger,           \* the PdfWriter: its pages and its outline
    total_pages_merged,
    printed,          \* what the run printed, in order
    output_file,      \* the file at output_pdf_path
    opened,           \* ghost: per line the merge loop passed, the document it read
    exit_status,      \* the exit status of the process, once it ended
    sync_pc,          \* where the syn2GH run is: find, validate, status, pull, stage, commit, push, end, exit
    git_dirs,         \* the number of repositories find_git_repos returned
    repo,             \* the 1-based position of the loop of main in git_dirs
    tracking_ref,     \* process_repo's local tracking_ref: a ref, or None
    staged_changes,   \* process_repo's local staged_changes
    errors,           \* the list errors of main
    issued,           \* ghost: the pull, add, commit and push commands run, in order
    worktree,         \* ghost: the state of the repository being processed
    staged,           \* ghost: per repository, what git add -A left in the index
    sync_exit,        \* the exit status of the syn2GH process, once it ended
    uncaught,         \* the exception that ended the syn2GH process, if one did
    del_pc,           \* where the git_delbranch run is: start, check, remote, local, exit
    branch_to_delete, \* the argument of git_delbranch.py
    branches,         \* ghost: the branch in the repository: local, remote, unmerged, current
    commands,         \* ghost: the git commands that change the repository, in order
    answers,          \* ghost: what the user typed at each prompt
    del_exit,         \* the exit status of the git_delbranch process, once it ended
    argv,             \* the arguments of git_branch.py, sys.argv[1:]
    merge_pc,         \* where the git_branch run is: main, start, save, update, merge, prompt, exit
    feature_branch,   \* the argument feature_branch
    steps,            \* ghost: the git commands merge_and_delete ran, in order
    user_input,       \* ghost: what the user typed at the deletion prompt
    merge_exit,       \* the exit status of the git_branch process, once it ended
    repl_pc,          \* where the regexrepl run is: main, sub, write, exit
    target_file,      \* the file at file_path: whether it exists, its content, whether the run wrote it
    backup_file,      \* the file at file_path + ".bak"
    content,          \* main's local content
    decided,          \* per match handed to replace_match so far, the text it returned: new or original
    replacer,         \* the Replacer: replace_all and count
    prompts,          \* ghost: each input() of replace_match: the match it was about and what was typed
    repl_exit         \* the exit status of the regexrepl process, once it ended

resolver_vars ==
    <<page_spec, num_input_pages, page_indices, written, split_page_indices>>

log_vars == <<ERROR_LOG, WARN_LOG>>

call_vars == <<frame, local_indices, overlap>>

merge_vars ==
    <<config_file, meant, pc, original_lines, config, idx, merger,
      total_pages_merged, printed, output_file, opened, exit_status>>

sync_vars ==
    <<sync_pc, git_dirs, repo, tracking_ref, staged_changes, errors, issued,
      worktree, staged, sync_exit, uncaught>>

del_vars == <<del_pc, branch_to_delete, branches, commands, answers, del_exit>>

branch_vars == <<argv, merge_pc, feature_branch, steps, user_input, merge_exit>>

repl_vars ==
    <<repl_pc, target_file, backup_file, content, decided, replacer, prompts,
      repl_exit>>

tool_vars == <<sync_vars, del_vars, branch_vars, repl_vars>>

vars == <<resolver_vars, log_vars, call_vars, merge_vars, tool_vars>>

--------------------------------------------------------------------------
(* Bounds of the model. *)

MaxParts == 2

MaxPages == 3

MaxLog == 1

MaxLines == 2

MaxDocPages == 2

--------------------------------------------------------------------------
(* Python values and str methods. *)

None == <<"None">>

Whitespace == {" ", "\n"}

Digits == {"0", "1", "2", "3", "4", "5", "6", "7", "8", "9"}

RECURSIVE lstrip(_)
lstrip(s) ==
    IF s # <<>> /\ Head(s) \in Whitespace THEN lstrip(Tail(s)) ELSE s

RECURSIVE rstrip(_)
rstrip(s) ==
    IF s # <<>> /\ s[Len(s)] \in Whitespace
    THEN rstrip(SubSeq(s, 1, Len(s) - 1))
    ELSE s

\* str.strip(): leading and trailing whitespace removed.
strip(s) == rstrip(lstrip(s))

lower_char_identity(c) == c

lower_char(c) ==
    CASE c = "L" -> "l"
      [] c = "A" -> "a"
      [] c = "S" -> "s"
      [] c = "T" -> "t"
      [] c = "P" -> "p"
      [] c = "D" -> "d"
      [] c = "F" -> "f"
      [] c = "Y" -> "y"
      [] c = "E" -> "e"
      [] c = "N" -> "n"
      [] c = "O" -> "o"
      [] c = "Q" -> "q"
      [] OTHER -> c

\* str.lower(), on the letters the inputs are written with.
lower(s) == [i \in 1..Len(s) |-> lower_char(s[i])]

\* c in s
contains(s, c) == \E i \in 1..Len(s) : s[i] = c

\* The first position of c in s at or after i; s must contain c there.
RECURSIVE find_from(_, _, _)
find_from(s, c, i) == IF s[i] = c THEN i ELSE find_from(s, c, i + 1)

\* s.find(c), 1-based; s must contain c.
find(s, c) == find_from(s, c, 1)

\* s.split(sep): every piece between separators, empty pieces kept.
RECURSIVE split(_, _)
split(s, sep) ==
    IF ~contains(s, sep)
    THEN <<s>>
    ELSE LET i == find(s, sep)
         IN  <<SubSeq(s, 1, i - 1)>> \o split(SubSeq(s, i + 1, Len(s)), sep)

\* s.split(sep, 1) of a string that contains sep: the text before the first
\* separator and everything after it.
split_once(s, sep) ==
    LET i == find(s, sep)
    IN  <<SubSeq(s, 1, i - 1), SubSeq(s, i + 1, Len(s))>>

digit_value(c) ==
    CASE c = "0" -> 0 [] c = "1" -> 1 [] c = "2" -> 2 [] c = "3" -> 3
      [] c = "4" -> 4 [] c = "5" -> 5 [] c = "6" -> 6 [] c = "7" -> 7
      [] c = "8" -> 8 [] c = "9" -> 9

RECURSIVE decimal(_)
decimal(ds) ==
    IF ds = <<>> THEN 0
    ELSE 10 * decimal(SubSeq(ds, 1, Len(ds) - 1)) + digit_value(ds[Len(ds)])

\* int(s): surrounding whitespace and one leading sign are accepted, the
\* rest must be a non-empty run of digits; anything else is a ValueError
\* (ok = FALSE).
int(s) ==
    LET t      == strip(s)
        signed == t # <<>> /\ Head(t) \in {"+", "-"}
        ds     == IF signed THEN Tail(t) ELSE t
        valid  == ds # <<>> /\ \A i \in 1..Len(ds) : ds[i] \in Digits
        mag    == IF valid THEN decimal(ds) ELSE 0
    IN  [ok  |-> valid,
         val |-> IF signed /\ Head(t) = "-" THEN 0 - mag ELSE mag]

--------------------------------------------------------------------------
(* Outcomes of a call. *)

Pending == [kind |-> "pending", value |-> <<>>, error |-> ""]

Return(v) == [kind |-> "return", value |-> v, error |-> ""]

\* raise ValueError(msg)
Raise(msg) == [kind |-> "raise", value |-> <<>>, error |-> msg]

\* What one non-blank part does to the loop: adds indices, or raises.
Adds(new) == [raised |-> FALSE, new |-> new, error |-> ""]

Throws(msg) == [raised |-> TRUE, new |-> {}, error |-> msg]

--------------------------------------------------------------------------
(* parse_merge_page_string, mergePDF.py lines 94-157. *)

is_all_pages_or_separators(page_str) ==
    \/ page_str = None
    \/ \A i \in 1..Len(page_str) : page_str[i] \in Whitespace \cup {","}

\* Line 104: the "all pages" case.
is_all_pages_spec(page_str) == page_str = None \/ strip(page_str) = <<>>

all_pages_from_one(total_pages) ==
    IF total_pages > 0 THEN [i \in 1..(total_pages - 1) |-> i] ELSE <<>>

\* Lines 105-108: list(range(total_pages)), or [] for an empty PDF.
all_pages(total_pages) ==
    IF total_pages > 0 THEN [i \in 1..total_pages |-> i - 1] ELSE <<>>

\* Lines 113-117: 'last' as the whole spec.
only_last(total_pages) ==
    IF total_pages > 0
    THEN Return(<<total_pages - 1>>)
    ELSE Raise("Cannot get 'last' page from an empty PDF.")

skip_nothing(part) == FALSE

\* Line 122: a part that is empty after strip() is skipped.
skip_part(part) == part = <<>>

\* Lines 125-130: 'last' as one part of a list.
last_part(total_pages) ==
    IF total_pages > 0
    THEN Adds({total_pages - 1})
    ELSE Throws("Cannot use 'last' with an empty PDF.")

range_invalid_no_order(start, end, total_pages) ==
    start < 0 \/ end >= total_pages

range_invalid_off_by_one(start, end, total_pages) ==
    start < 0 \/ end > total_pages \/ start > end

\* Line 138.
range_invalid(start, end, total_pages) ==
    start < 0 \/ end >= total_pages \/ start > end

range_exclusive(start, end) == start..(end - 1)

\* Line 140: range(start, end + 1).
range_indices(start, end) == start..end

\* Lines 134-140: the body of the try of a range part. The ValueError of
\* int() and the one of line 139 both leave the try.
range_try(part, total_pages) ==
    LET halves == split_once(part, "-")
        s      == int(strip(halves[1]))
        e      == int(strip(halves[2]))
    IN  IF ~s.ok \/ ~e.ok
        THEN Throws("invalid literal for int()")
        ELSE IF range_invalid(s.val - 1, e.val - 1, total_pages)
             THEN Throws("Invalid page range. Max page is total_pages.")
             ELSE Adds(range_indices(s.val - 1, e.val - 1))

\* Lines 132-142: the except clause replaces any ValueError of the try.
range_part(part, total_pages) ==
    LET t == range_try(part, total_pages)
    IN  IF t.raised THEN Throws("Invalid page range format") ELSE t

page_invalid_off_by_one(index, total_pages) ==
    index < 0 \/ index > total_pages

\* Line 148.
page_invalid(index, total_pages) == index < 0 \/ index >= total_pages

\* Lines 146-150: the body of the try of a single page.
page_try(part, total_pages) ==
    LET n == int(strip(part))
    IN  IF ~n.ok
        THEN Throws("invalid literal for int()")
        ELSE IF page_invalid(n.val - 1, total_pages)
             THEN Throws("Invalid page number. Max page is total_pages.")
             ELSE Adds({n.val - 1})

\* Lines 144-152.
single_page_part(part, total_pages) ==
    LET t == page_try(part, total_pages)
    IN  IF t.raised THEN Throws("Invalid page number format") ELSE t

\* Lines 125-152: one non-blank part.
one_part(part, total_pages) ==
    IF part = <<"l", "a", "s", "t">> THEN last_part(total_pages)
    ELSE IF contains(part, "-") THEN range_part(part, total_pages)
    ELSE single_page_part(part, total_pages)

update_overwrite(indices, new) == new

\* indices.add / indices.update, lines 127, 140, 150.
update(indices, new) == indices \cup new

\* Lines 120-152: the loop over parts[k..], with the indices collected so
\* far; the first part that raises ends it.
RECURSIVE for_part(_, _, _, _)
for_part(parts, k, indices, total_pages) ==
    IF k > Len(parts) THEN Adds(indices)
    ELSE LET part == strip(parts[k])
         IN  IF skip_part(part)
             THEN for_part(parts, k + 1, indices, total_pages)
             ELSE LET r == one_part(part, total_pages)
                  IN  IF r.raised THEN r
                      ELSE for_part(parts, k + 1, update(indices, r.new),
                                    total_pages)

\* Line 154: sorted(list(indices)).
RECURSIVE sorted(_)
sorted(indices) ==
    IF indices = {} THEN <<>>
    ELSE LET m == CHOOSE x \in indices : \A y \in indices : x <= y
         IN  <<m>> \o sorted(indices \ {m})

result_never_empty(sorted_indices) == FALSE

\* Line 155: if not sorted_indices.
result_empty(sorted_indices) == sorted_indices = <<>>

\* Lines 154-157.
finish(indices) ==
    LET sorted_indices == sorted(indices)
    IN  IF result_empty(sorted_indices)
        THEN Raise("Page string resulted in no pages.")
        ELSE Return(sorted_indices)

parse_merge_page_string(page_str, total_pages) ==
    IF is_all_pages_spec(page_str) THEN Return(all_pages(total_pages))
    ELSE LET s == strip(lower(page_str))
         IN  IF s = <<"l", "a", "s", "t">> THEN only_last(total_pages)
             ELSE LET r == for_part(split(s, ","), 1, {}, total_pages)
                  IN  IF r.raised THEN Raise(r.error) ELSE finish(r.new)

--------------------------------------------------------------------------
(* parse_page_string, splitPDF.py lines 64-128. The function also builds   *)
(* a display string (friendly_parts); the outcome here is the index list   *)
(* of the returned pair.                                                   *)

\* Lines 87-93: 'last' as one part of a list.
last_part_split(total_pages) ==
    IF total_pages > 0
    THEN Adds({total_pages - 1})
    ELSE Throws("Cannot use 'last' with an empty PDF.")

\* Line 103.
range_invalid_split(start_idx, end_idx, total_pages) ==
    start_idx < 0 \/ end_idx >= total_pages \/ start_idx > end_idx

\* Lines 97-106: the body of the try of a range part.
range_try_split(part, total_pages) ==
    LET halves     == split_once(part, "-")
        start_user == int(strip(halves[1]))
        end_user   == int(strip(halves[2]))
    IN  IF ~start_user.ok \/ ~end_user.ok
        THEN Throws("invalid literal for int()")
        ELSE IF range_invalid_split(start_user.val - 1, end_user.val - 1,
                                    total_pages)
             THEN Throws("Invalid page range. Max page is total_pages.")
             ELSE Adds((start_user.val - 1)..(end_user.val - 1))

\* Lines 95-108.
range_part_split(part, total_pages) ==
    LET t == range_try_split(part, total_pages)
    IN  IF t.raised THEN Throws("Invalid page range format") ELSE t

\* Line 114.
page_invalid_split(index, total_pages) == index < 0 \/ index >= total_pages

\* Lines 112-117: the body of the try of a single page.
page_try_split(part, total_pages) ==
    LET page_num_user == int(strip(part))
    IN  IF ~page_num_user.ok
        THEN Throws("invalid literal for int()")
        ELSE IF page_invalid_split(page_num_user.val - 1, total_pages)
             THEN Throws("Invalid page number. Max page is total_pages.")
             ELSE Adds({page_num_user.val - 1})

\* Lines 109-119.
single_page_part_split(part, total_pages) ==
    LET t == page_try_split(part, total_pages)
    IN  IF t.raised THEN Throws("Invalid page number format") ELSE t

\* Lines 87-119: one non-blank part.
one_part_split(part, total_pages) ==
    IF part = <<"l", "a", "s", "t">> THEN last_part_split(total_pages)
    ELSE IF contains(part, "-") THEN range_part_split(part, total_pages)
    ELSE single_page_part_split(part, total_pages)

\* Lines 82-119: the loop over parts[k..].
RECURSIVE for_part_split(_, _, _, _)
for_part_split(parts, k, indices, total_pages) ==
    IF k > Len(parts) THEN Adds(indices)
    ELSE LET part == strip(parts[k])
         IN  IF part = <<>>
             THEN for_part_split(parts, k + 1, indices, total_pages)
             ELSE LET r == one_part_split(part, total_pages)
                  IN  IF r.raised THEN r
                      ELSE for_part_split(parts, k + 1, update(indices, r.new),
                                          total_pages)

\* Lines 121-128.
finish_split(indices) ==
    LET sorted_indices == sorted(indices)
    IN  IF sorted_indices = <<>>
        THEN Raise("Page string resulted in no pages.")
        ELSE Return(sorted_indices)

\* Line 71 calls page_str.lower(): None has no such method. There is no
\* "all pages" case: an empty page_str goes through the loop.
parse_page_string(page_str, total_pages) ==
    IF page_str = None
    THEN Raise("AttributeError: 'NoneType' object has no attribute 'lower'")
    ELSE LET s == strip(lower(page_str))
         IN  IF s = <<"l", "a", "s", "t">>
             THEN IF total_pages > 0
                  THEN finish_split({total_pages - 1})
                  ELSE Raise("Cannot get 'last' page from an empty PDF.")
             ELSE LET r == for_part_split(split(s, ","), 1, {}, total_pages)
                  IN  IF r.raised THEN Raise(r.error) ELSE finish_split(r.new)

--------------------------------------------------------------------------
(* The inputs of a call. A spec is written as comma-separated parts; each  *)
(* part is a text together with what its author means by it: blank, the    *)
(* token last, the 1-based page a, the 1-based range a-b, the range        *)
(* a-last that runs to the last page (to_last), or none of these (other).  *)

Part(text, kind, a, b) == [text |-> text, kind |-> kind, a |-> a, b |-> b]

BlankParts ==
    { Part(<<>>, "blank", 0, 0),
      Part(<<" ">>, "blank", 0, 0) }

LastParts ==
    { Part(<<"l", "a", "s", "t">>, "last", 0, 0),
      Part(<<" ", "L", "a", "S", "t">>, "last", 0, 0) }

PageParts ==
    { Part(<<"1">>, "page", 1, 1),
      Part(<<"2", " ">>, "page", 2, 2),
      Part(<<"3">>, "page", 3, 3),
      Part(<<"0">>, "page", 0, 0),
      Part(<<"-", "1">>, "page", -1, -1) }

RangeParts ==
    { Part(<<"1", "-", "2">>, "range", 1, 2),
      Part(<<"2", " ", "-", " ", "3">>, "range", 2, 3),
      Part(<<"1", "-", "3">>, "range", 1, 3),
      Part(<<"2", "-", "1">>, "range", 2, 1),
      Part(<<"0", "-", "1">>, "range", 0, 1) }

OtherParts ==
    { Part(<<"2", "-", "l", "a", "s", "t">>, "to_last", 2, 0),
      Part(<<"x">>, "other", 0, 0) }

Parts == BlankParts \cup LastParts \cup PageParts \cup RangeParts \cup OtherParts

\* ",".join of the parts' texts.
RECURSIVE Join(_)
Join(ps) ==
    IF ps = <<>> THEN <<>>
    ELSE IF Len(ps) = 1 THEN ps[1].text
    ELSE ps[1].text \o <<",">> \o Join(Tail(ps))

PartLists == UNION { [1..n -> Parts] : n \in 1..MaxParts }

--------------------------------------------------------------------------
(* One call page_indices = parse_merge_page_string(page_spec,              *)
(* num_input_pages), as at mergePDF.py line 198, and one call of           *)
(* parse_page_string on the same arguments, as at splitPDF.py line 154.    *)

\* Lines 32-33: both logs start empty.
NoLogs ==
    /\ ERROR_LOG = <<>>
    /\ WARN_LOG = <<>>

\* No caller of the interleaved calls below exists.
NoCalls ==
    /\ frame = <<>>
    /\ local_indices = <<>>
    /\ overlap = FALSE

\* No merge run exists.
NoMerge ==
    /\ config_file = [exists |-> FALSE, lines |-> <<>>]
    /\ meant = <<>>
    /\ pc = "none"
    /\ original_lines = <<>>
    /\ config = <<>>
    /\ idx = 0
    /\ merger = [pages |-> <<>>, outline |-> <<>>]
    /\ total_pages_merged = 0
    /\ printed = <<>>
    /\ output_file = [state |-> "absent", pages |-> <<>>, outline |-> <<>>]
    /\ opened = <<>>
    /\ exit_status = "running"

NoResolver ==
    /\ page_spec = None
    /\ num_input_pages = 0
    /\ page_indices = Pending
    /\ written = <<>>
    /\ split_page_indices = Pending

NoPdf == NoResolver /\ NoLogs /\ NoCalls /\ NoMerge

pdf_vars == <<resolver_vars, log_vars, call_vars, merge_vars>>

NoSync ==
    /\ sync_pc = "none"
    /\ git_dirs = 0
    /\ repo = 0
    /\ tracking_ref = "None"
    /\ staged_changes = "None"
    /\ errors = <<>>
    /\ issued = <<>>
    /\ worktree = [dirty |-> FALSE, ahead |-> FALSE, behind |-> FALSE]
    /\ staged = <<>>
    /\ sync_exit = "running"
    /\ uncaught = "None"

\* A prompt that was not shown, and a prompt that met the end of the input.
NotAsked == <<"not asked">>

EndOfInput == <<"EOF">>

NoDelBranch ==
    /\ del_pc = "none"
    /\ branch_to_delete = "None"
    /\ branches = [local |-> FALSE, remote |-> FALSE, unmerged |-> FALSE, current |-> FALSE]
    /\ commands = <<>>
    /\ answers = [confirm |-> NotAsked, force |-> NotAsked]
    /\ del_exit = "running"

NoBranch ==
    /\ argv = <<>>
    /\ merge_pc = "none"
    /\ feature_branch = "None"
    /\ steps = <<>>
    /\ user_input = NotAsked
    /\ merge_exit = "running"

NoFile == [exists |-> FALSE, content |-> <<>>, written |-> FALSE]

NoRepl ==
    /\ repl_pc = "none"
    /\ target_file = NoFile
    /\ backup_file = NoFile
    /\ content = <<>>
    /\ decided = <<>>
    /\ replacer = [replace_all |-> FALSE, count |-> 0]
    /\ prompts = <<>>
    /\ repl_exit = "running"

NoTools == NoSync /\ NoDelBranch /\ NoBranch /\ NoRepl

Init ==
    /\ num_input_pages \in 0..MaxPages
    /\ \/ /\ written = <<>>
          /\ page_spec = None
       \/ /\ written \in PartLists
          /\ page_spec = Join(written)
    /\ page_indices = Pending
    /\ split_page_indices = Pending
    /\ NoLogs
    /\ NoCalls
    /\ NoMerge
    /\ NoTools

Resolve ==
    /\ page_indices = Pending
    /\ page_indices' = parse_merge_page_string(page_spec, num_input_pages)
    /\ UNCHANGED <<page_spec, num_input_pages, written, split_page_indices>>
    /\ UNCHANGED <<log_vars, call_vars, merge_vars, tool_vars>>

ResolveSplit ==
    /\ split_page_indices = Pending
    /\ split_page_indices' = parse_page_string(page_spec, num_input_pages)
    /\ UNCHANGED <<page_spec, num_input_pages, written, page_indices>>
    /\ UNCHANGED <<log_vars, call_vars, merge_vars, tool_vars>>

Next == Resolve \/ ResolveSplit

Spec == Init /\ [][Next]_vars

--------------------------------------------------------------------------
(* parse_merge_page_string step by step, for two callers whose calls may   *)
(* interleave with each other and with the code that appends to the logs.  *)
(* A step is the entry of the function up to its loop (lines 101-119),     *)
(* one iteration of the loop (lines 120-152), or the end (lines 154-157).  *)

Callers == {1, 2}

\* The specs the callers pass.
CallSpecs ==
    { None,
      <<>>,
      <<"l", "a", "s", "t">>,
      <<"1", ",", "2">>,
      <<"2", " ", "-", " ", "3", ",", "L", "a", "s", "t">>,
      <<"1", "-", "2", ",", ",", "x">>,
      <<",">> }

Frame(page_str, total_pages, at, parts, k, outcome) ==
    [page_str |-> page_str, total_pages |-> total_pages, pc |-> at,
     parts |-> parts, k |-> k, outcome |-> outcome]

\* An entry of ERROR_LOG or WARN_LOG: the tag in brackets, the 1-based
\* line the message names (0 when it names none), the message, and the
\* exception text it ends with ("" when it has none).
LogEntry(tag, line, msg, detail) ==
    [tag |-> tag, line |-> line, msg |-> msg, detail |-> detail]

\* A module-level indices would be one set for all callers.
store_shared(locals, c, v) == [d \in DOMAIN locals |-> v]

\* Line 101: indices is a local of the call; an assignment changes the
\* caller's own set only.
store(locals, c, v) == [locals EXCEPT ![c] = v]

InitCalls ==
    /\ page_spec = None
    /\ num_input_pages = 0
    /\ page_indices = Pending
    /\ written = <<>>
    /\ split_page_indices = Pending
    /\ NoLogs
    /\ frame \in [Callers -> { Frame(s, n, "called", <<>>, 0, Pending) :
                                   s \in CallSpecs, n \in 0..MaxPages }]
    /\ local_indices = [c \in Callers |-> {}]
    /\ overlap = FALSE
    /\ NoMerge
    /\ NoTools

\* Lines 101-119: the call up to its loop.
Enter(c) ==
    /\ frame[c].pc = "called"
    /\ LET f == frame[c]
           s == strip(lower(f.page_str))
       IN  /\ local_indices' = store(local_indices, c, {})
           /\ frame' = [frame EXCEPT ![c] =
                  IF is_all_pages_spec(f.page_str)
                  THEN [f EXCEPT !.pc = "done",
                                 !.outcome = Return(all_pages(f.total_pages))]
                  ELSE IF s = <<"l", "a", "s", "t">>
                  THEN [f EXCEPT !.pc = "done",
                                 !.outcome = only_last(f.total_pages)]
                  ELSE [f EXCEPT !.pc = "loop", !.parts = split(s, ","),
                                 !.k = 1]]
    /\ overlap' = (overlap \/ \E d \in Callers \ {c} : frame[d].pc = "loop")
    /\ UNCHANGED <<resolver_vars, log_vars, merge_vars, tool_vars>>

\* Lines 120-152: one iteration of the loop.
Iterate(c) ==
    /\ frame[c].pc = "loop"
    /\ frame[c].k <= Len(frame[c].parts)
    /\ LET f    == frame[c]
           part == strip(f.parts[f.k])
           r    == one_part(part, f.total_pages)
       IN  IF skip_part(part)
           THEN /\ frame' = [frame EXCEPT ![c].k = f.k + 1]
                /\ UNCHANGED local_indices
           ELSE IF r.raised
           THEN /\ frame' = [frame EXCEPT ![c].pc = "done",
                                          ![c].outcome = Raise(r.error)]
                /\ UNCHANGED local_indices
           ELSE /\ frame' = [frame EXCEPT ![c].k = f.k + 1]
                /\ local_indices' = store(local_indices, c,
                                        update(local_indices[c], r.new))
    /\ UNCHANGED <<resolver_vars, log_vars, overlap, merge_vars, tool_vars>>

\* Lines 154-157: after the loop.
Finish(c) ==
    /\ frame[c].pc = "loop"
    /\ frame[c].k > Len(frame[c].parts)
    /\ frame' = [frame EXCEPT ![c].pc = "done",
                              ![c].outcome = finish(local_indices[c])]
    /\ UNCHANGED <<resolver_vars, log_vars, local_indices, overlap, merge_vars, tool_vars>>

\* Line 231: the merge loop records an error in ERROR_LOG.
AppendError ==
    /\ Len(ERROR_LOG) < MaxLog
    /\ ERROR_LOG' = Append(ERROR_LOG,
                           LogEntry("LINE", 1, "Processing", "library error"))
    /\ UNCHANGED <<resolver_vars, WARN_LOG, call_vars, merge_vars, tool_vars>>

\* Line 73: the config reader records a warning in WARN_LOG.
AppendWarning ==
    /\ Len(WARN_LOG) < MaxLog
    /\ WARN_LOG' = Append(WARN_LOG, LogEntry("CONFIG", 1, "Invalid format. Skipping.", ""))
    /\ UNCHANGED <<resolver_vars, ERROR_LOG, call_vars, merge_vars, tool_vars>>

CallStep == \E c \in Callers : Enter(c) \/ Iterate(c) \/ Finish(c)

NextCalls ==
    \/ \E c \in Callers : Enter(c)
    \/ \E c \in Callers : Iterate(c)
    \/ \E c \in Callers : Finish(c)
    \/ AppendError
    \/ AppendWarning

SpecCalls == InitCalls /\ [][NextCalls]_vars

--------------------------------------------------------------------------
(* The merge tool: read_merge_config_from_file, merge_pdfs_from_config     *)
(* and the main block of mergePDF.py.                                      *)

\* Line 50, of the stripped line.
skips_blank_only(original_line_text) == original_line_text = <<>>

skipped_by_reader(original_line_text) ==
    original_line_text = <<>> \/ Head(original_line_text) = "#"

\* Line 175.
skipped_by_merge(line_text) == line_text = <<>> \/ Head(line_text) = "#"

\* '\.pdf' under re.IGNORECASE ending at position e of s, after the one
\* character or more of '.+'.
ends_pdf(s, e) ==
    /\ e >= 5
    /\ e <= Len(s)
    /\ lower(SubSeq(s, e - 3, e)) = <<".", "p", "d", "f">>

NoMatch == [ok |-> FALSE, g1 |-> None, g2 |-> None, g3 |-> None]

\* '\s*(?::\s*(.*?)\s*)?$' on the text t after the title: group 3 is the
\* text after the colon without its surrounding whitespace.
spec_tail(t) ==
    LET u == lstrip(t)
    IN  IF u = <<>> THEN [ok |-> TRUE, g3 |-> None]
        ELSE IF Head(u) = ":" THEN [ok |-> TRUE, g3 |-> strip(Tail(u))]
        ELSE [ok |-> FALSE, g3 |-> None]

\* '\(\s*(.*?)\s*\)' on u, which starts with the opening parenthesis: the
\* lazy group 2 ends at the first closing parenthesis, at position j or
\* later, after which the rest of the pattern matches.
RECURSIVE title_tail(_, _)
title_closed(u, j, rest) ==
    IF u[j] = ")" /\ rest.ok
    THEN [ok |-> TRUE, g2 |-> strip(SubSeq(u, 2, j - 1)), g3 |-> rest.g3]
    ELSE title_tail(u, j + 1)

title_tail(u, j) ==
    IF j > Len(u) THEN [ok |-> FALSE, g2 |-> None, g3 |-> None]
    ELSE title_closed(u, j, spec_tail(SubSeq(u, j + 1, Len(u))))

\* The optional title group is taken when the pattern matches with it;
\* without it the rest of the pattern must match at once.
title_or_not(u, with_title, without) ==
    IF u # <<>> /\ Head(u) = "(" /\ with_title.ok
    THEN with_title
    ELSE [ok |-> without.ok, g2 |-> None, g3 |-> without.g3]

\* The pattern after group 1, on the text t that follows it.
tail_match(t) == title_or_not(lstrip(t), title_tail(lstrip(t), 2), spec_tail(t))

\* The greedy group 1 '(.+\.pdf)' ends at the last position, e or earlier,
\* after which the rest of the pattern matches.
RECURSIVE match_from(_, _)
group1_ends(s, e, rest) ==
    IF ends_pdf(s, e) /\ rest.ok
    THEN [ok |-> TRUE, g1 |-> SubSeq(s, 1, e), g2 |-> rest.g2, g3 |-> rest.g3]
    ELSE match_from(s, e - 1)

match_from(s, e) ==
    IF e < 5 THEN NoMatch
    ELSE group1_ends(s, e, tail_match(SubSeq(s, e + 1, Len(s))))

\* Lines 54-58: re.match of the line pattern.
re_match(s) == match_from(s, Len(s))

\* Lines 62-63: match.group(n).strip() if match.group(n) else None.
group_or_none(g) == IF g # None /\ g # <<>> THEN strip(g) ELSE None

Entry(filename, bookmark, pages, line_index) ==
    [filename |-> filename, bookmark |-> bookmark, pages |-> pages,
     line_index |-> line_index]

\* Lines 61-69: the entry of a matched line.
entry_of(match, line_index) ==
    Entry(strip(match.g1), group_or_none(match.g2), group_or_none(match.g3),
          line_index)

\* A print call: what is printed, the 1-based line it is about (0 when it
\* is about none), and the count it states (0 when it states none).
Printed(kind, line, count) == [kind |-> kind, line |-> line, count |-> count]

config_by_position(entries, i) ==
    IF i + 1 <= Len(entries) THEN <<entries[i + 1]>> ELSE <<>>

\* Lines 170 and 178: config_map.get(idx); no entry is the empty sequence.
config_map_get(entries, i) ==
    IF \E n \in 1..Len(entries) : entries[n].line_index = i
    THEN <<entries[CHOOSE n \in 1..Len(entries) : entries[n].line_index = i]>>
    ELSE <<>>

\* os.path.basename: the text after the last slash.
RECURSIVE basename(_)
basename(path) ==
    IF contains(path, "/")
    THEN basename(SubSeq(path, find(path, "/") + 1, Len(path)))
    ELSE path

\* os.path.splitext(name)[0]: the name up to its last dot; leading dots
\* are part of the name.
splitext_root(name) ==
    LET dots == {i \in 1..Len(name) : name[i] = "."}
        last == CHOOSE i \in dots : \A j \in dots : j <= i
    IN  IF dots = {} THEN name
        ELSE IF \A j \in 1..(last - 1) : name[j] = "." THEN name
        ELSE SubSeq(name, 1, last - 1)

\* Lines 205-209.
bookmark_title(entry) ==
    IF entry.bookmark # None /\ entry.bookmark # <<>>
    THEN entry.bookmark
    ELSE splitext_root(basename(entry.filename))

\* What PdfReader finds at the path of an entry: no file, a file pypdf
\* cannot read, or a document of so many pages; bad is the 1-based page
\* whose object cannot be copied, 0 when every page can.
Doc(state, pages, bad) == [state |-> state, pages |-> pages, bad |-> bad]

NoDoc == Doc("none", 0, 0)

Docs ==
    { Doc("missing", 0, 0), Doc("unreadable", 0, 0) } \cup
    { Doc("pdf", n, b) : n \in 0..MaxDocPages, b \in 0..MaxDocPages }

Page(line, index) == [line |-> line, index |-> index]

Item(title, target, line) == [title |-> title, target |-> target, line |-> line]

\* Lines 214-215: the pages page_indices[k..] are added one by one; the
\* page that cannot be copied raises and ends the loop.
RECURSIVE add_pages(_, _, _, _, _)
add_pages(pages, page_indices_, k, line, bad) ==
    IF k > Len(page_indices_) THEN [pages |-> pages, raised |-> FALSE]
    ELSE IF page_indices_[k] + 1 = bad THEN [pages |-> pages, raised |-> TRUE]
    ELSE add_pages(Append(pages, Page(line, page_indices_[k])),
                   page_indices_, k + 1, line, bad)

Processed(failed, msg, detail, m, num_added) ==
    [failed |-> failed, msg |-> msg, detail |-> detail, merger |-> m,
     num_added |-> num_added]

\* Lines 204-210: the outline item is added before the pages.
add_outline_item(m, title, page_number, line) ==
    [m EXCEPT !.outline = Append(m.outline, Item(title, page_number, line))]

\* Lines 213-225: the pages, the count, and the except clause of a page
\* that cannot be copied.
pages_added(m, added, num_added) ==
    IF added.raised
    THEN Processed(TRUE, "Processing", "library error",
                   [m EXCEPT !.pages = added.pages], 0)
    ELSE Processed(FALSE, "", "", [m EXCEPT !.pages = added.pages], num_added)

\* Lines 203-218: the bookmark, then the pages.
add_entry(entry, page_indices_, doc, m, line) ==
    pages_added(add_outline_item(m, bookmark_title(entry), Len(m.pages), line),
                add_pages(m.pages, page_indices_, 1, line, doc.bad),
                Len(page_indices_))

\* Lines 198-218: the resolver's outcome r and what follows it.
resolved_entry(r, entry, doc, m, line) ==
    IF r.kind = "raise"
    THEN Processed(TRUE, "Parsing page spec", r.error, m, 0)
    ELSE IF r.value = <<>>
    THEN Processed(TRUE, "Parsing page spec",
                   "No pages selected or specified.", m, 0)
    ELSE add_entry(entry, r.value, doc, m, line)

\* Lines 192-225: the try of one entry and its except clauses.
process_entry(entry, doc, m, line) ==
    IF doc.state = "missing"
    THEN Processed(TRUE, "Input file not found.", "", m, 0)
    ELSE IF doc.state = "unreadable"
    THEN Processed(TRUE, "Processing", "library error", m, 0)
    ELSE IF doc.pages = 0
    THEN Processed(TRUE, "Parsing page spec", "Input PDF is empty.", m, 0)
    ELSE resolved_entry(parse_merge_page_string(entry.pages, doc.pages),
                        entry, doc, m, line)

always_writes(total) == TRUE

\* Line 237.
pages_were_merged(total) == total > 0

--------------------------------------------------------------------------
(* The lines of a configuration file, each with what its author means by  *)
(* it: nothing (blank, comment), an entry of file f with title T and page  *)
(* spec S (None when not given), or a line of no recognized shape.         *)

Meant(text, kind, f, T, S) ==
    [text |-> text, kind |-> kind, f |-> f, T |-> T, S |-> S]

BlankLines ==
    { Meant(<<>>, "blank", None, None, None),
      Meant(<<" ">>, "blank", None, None, None) }

CommentLines ==
    { Meant(<<"#", "a", ".", "p", "d", "f">>, "comment", None, None, None),
      Meant(<<" ", "#", " ", "c">>, "comment", None, None, None) }

EntryLines ==
    { Meant(<<"a", ".", "p", "d", "f">>, "entry", <<"a", ".", "p", "d", "f">>, None, None),
      Meant(<<"a", ".", "p", "d", "f", " ", "(", "T", ")">>, "entry", <<"a", ".", "p", "d", "f">>, <<"T">>, None),
      Meant(<<"d", "/", "b", ".", "P", "D", "F", ":", " ", "2">>, "entry",
            <<"d", "/", "b", ".", "P", "D", "F">>, None, <<"2">>),
      Meant(<<"a", ".", "p", "d", "f", " ", "(", " ", "T", " ", ")", ":", " ", "1", "-", "2">>,
            "entry", <<"a", ".", "p", "d", "f">>, <<"T">>, <<"1", "-", "2">>),
      Meant(<<"a", ".", "p", "d", "f", " ", "(", "b", ".", "p", "d", "f", ":", " ", "x", ")">>,
            "entry", <<"a", ".", "p", "d", "f">>,
            <<"b", ".", "p", "d", "f", ":", " ", "x">>, None) }

MalformedLines ==
    { Meant(<<"x">>, "malformed", None, None, None),
      Meant(<<"a", ".", "p", "d", "f", " ", "(", "T">>, "malformed",
            None, None, None) }

Lines == BlankLines \cup CommentLines \cup EntryLines \cup MalformedLines

LineLists == UNION { [1..n -> Lines] : n \in 0..MaxLines }

\* f.readlines(): every line with its newline.
readlines(ls) == [i \in 1..Len(ls) |-> ls[i].text \o <<"\n">>]

--------------------------------------------------------------------------
(* One run of mergePDF.py on a configuration file.                         *)

InitMerge ==
    /\ page_spec = None
    /\ num_input_pages = 0
    /\ page_indices = Pending
    /\ written = <<>>
    /\ split_page_indices = Pending
    /\ NoLogs
    /\ NoCalls
    /\ NoTools
    /\ \/ /\ meant = <<>>
          /\ config_file = [exists |-> FALSE, lines |-> <<>>]
       \/ /\ meant \in LineLists
          /\ config_file = [exists |-> TRUE, lines |-> readlines(meant)]
    /\ pc = "read"
    /\ original_lines = <<>>
    /\ config = <<>>
    /\ idx = 0
    /\ merger = [pages |-> <<>>, outline |-> <<>>]
    /\ total_pages_merged = 0
    /\ printed = <<>>
    /\ output_file = [state |-> "absent", pages |-> <<>>, outline |-> <<>>]
    /\ opened = <<>>
    /\ exit_status = "running"

\* Lines 75-79 and 307-309: the file cannot be opened; the reader returns
\* (None, None) and the process exits with status 1.
ConfigNotFound ==
    /\ pc = "read"
    /\ ~config_file.exists
    /\ printed' = Append(printed, Printed("Error: Configuration file not found", 0, 0))
    /\ ERROR_LOG' = Append(ERROR_LOG,
                           LogEntry("CONFIG", 0, "Configuration file not found", ""))
    /\ pc' = "exit"
    /\ exit_status' = "1"
    /\ UNCHANGED <<tool_vars, resolver_vars, WARN_LOG, call_vars, config_file, meant,
                   original_lines, config, idx, merger, total_pages_merged,
                   output_file, opened>>

\* Lines 50-73: the stripped line is skipped, or matched and appended to
\* config, or reported with a warning.
read_line(line_num, original_line_text) ==
    IF skipped_by_reader(original_line_text)
    THEN UNCHANGED <<config, WARN_LOG, printed>>
    ELSE IF re_match(original_line_text).ok
    THEN /\ config' = Append(config,
                             entry_of(re_match(original_line_text), line_num - 1))
         /\ UNCHANGED <<WARN_LOG, printed>>
    ELSE /\ printed' = Append(printed,
                              Printed("Warning: Invalid format. Skipping.",
                                      line_num, 0))
         /\ WARN_LOG' = Append(WARN_LOG,
                               LogEntry("CONFIG", line_num,
                                        "Invalid format. Skipping.", ""))
         /\ UNCHANGED config

\* Lines 46-73: one iteration of the loop over the file's lines.
ReadLine ==
    /\ pc = "read"
    /\ config_file.exists
    /\ Len(original_lines) < Len(config_file.lines)
    /\ original_lines' =
           Append(original_lines, strip(config_file.lines[Len(original_lines) + 1]))
    /\ read_line(Len(original_lines) + 1,
                 strip(config_file.lines[Len(original_lines) + 1]))
    /\ UNCHANGED <<tool_vars, resolver_vars, ERROR_LOG, call_vars, config_file, meant, pc,
                   idx, merger, total_pages_merged, output_file, opened,
                   exit_status>>

\* Lines 86-91, 304-306 and 167-172: after the last line the reader warns
\* of a configuration without entries and returns; the main block starts
\* the merge.
StartMerge ==
    /\ pc = "read"
    /\ config_file.exists
    /\ Len(original_lines) = Len(config_file.lines)
    /\ IF config = <<>>
       THEN /\ WARN_LOG' = Append(WARN_LOG,
                                  LogEntry("CONFIG", 0,
                                           "No valid configurations found.", ""))
            /\ printed' = printed \o
                   <<Printed("Warning: No valid configurations found.", 0, 0),
                     Printed("Processing merge instructions", 0, 0)>>
       ELSE /\ UNCHANGED WARN_LOG
            /\ printed' = Append(printed,
                                 Printed("Processing merge instructions", 0, 0))
    /\ merger' = [pages |-> <<>>, outline |-> <<>>]
    /\ total_pages_merged' = 0
    /\ idx' = 0
    /\ pc' = "merge"
    /\ UNCHANGED <<tool_vars, resolver_vars, ERROR_LOG, call_vars, config_file, meant,
                   original_lines, config, output_file, opened, exit_status>>

\* Lines 192-234: what the try of an entry leaves, and the status printed
\* for its line.
entry_processed(r) ==
    /\ merger' = r.merger
    /\ total_pages_merged' = total_pages_merged + r.num_added
    /\ IF r.failed
       THEN /\ printed' = printed \o
                   <<Printed("line_text", idx + 1, 0),
                     Printed("  Error", idx + 1, 0)>>
            /\ ERROR_LOG' = Append(ERROR_LOG,
                                   LogEntry("LINE", idx + 1, r.msg, r.detail))
       ELSE /\ printed' = Append(printed, Printed("ok", idx + 1, 0))
            /\ UNCHANGED ERROR_LOG

\* Lines 174-234: one iteration of the loop over original_lines.
MergeLine ==
    /\ pc = "merge"
    /\ idx < Len(original_lines)
    /\ idx' = idx + 1
    /\ LET line_text == original_lines[idx + 1]
           entry     == config_map_get(config, idx)
       IN  IF skipped_by_merge(line_text)
           THEN /\ opened' = Append(opened, NoDoc)
                /\ UNCHANGED <<ERROR_LOG, printed, merger, total_pages_merged>>
           ELSE IF entry = <<>>
           THEN /\ opened' = Append(opened, NoDoc)
                /\ printed' = printed \o
                       <<Printed("line_text", idx + 1, 0),
                         Printed("  Error", idx + 1, 0)>>
                /\ ERROR_LOG' = Append(ERROR_LOG,
                                       LogEntry("LINE", idx + 1,
                                                "Invalid line format.", ""))
                /\ UNCHANGED <<merger, total_pages_merged>>
           ELSE \E doc \in Docs :
                    /\ doc.bad <= doc.pages
                    /\ opened' = Append(opened, doc)
                    /\ entry_processed(process_entry(entry[1], doc, merger,
                                                     idx + 1))
    /\ UNCHANGED <<tool_vars, resolver_vars, WARN_LOG, call_vars, config_file, meant, pc,
                   original_lines, config, output_file, exit_status>>

\* Lines 236-251: after the loop the output is written when pages were
\* merged; open() or merger.write() may fail, and a failed write leaves
\* what it had written of the file.
WriteOutput ==
    /\ pc = "merge"
    /\ idx = Len(original_lines)
    /\ IF pages_were_merged(total_pages_merged)
       THEN \E w \in {"written", "open fails", "write fails"} :
                IF w = "written"
                THEN /\ output_file' = [state |-> "written",
                                        pages |-> merger.pages,
                                        outline |-> merger.outline]
                     /\ printed' = Append(printed,
                                          Printed("created", 0, total_pages_merged))
                     /\ UNCHANGED ERROR_LOG
                ELSE /\ output_file' =
                            IF w = "open fails" THEN output_file
                            ELSE [state |-> "partial", pages |-> <<>>,
                                  outline |-> <<>>]
                     /\ printed' = Append(printed,
                                          Printed("Error writing output file", 0, 0))
                     /\ ERROR_LOG' = Append(ERROR_LOG,
                                            LogEntry("WRITE", 0,
                                                     "Error writing output file",
                                                     w))
       ELSE /\ printed' = Append(printed,
                                 Printed("No pages were merged. Output file not created.",
                                         0, 0))
            /\ ERROR_LOG' = Append(ERROR_LOG,
                                   LogEntry("MERGE", 0,
                                            "No pages were merged. Output file not created.",
                                            ""))
            /\ UNCHANGED output_file
    /\ pc' = "summary"
    /\ UNCHANGED <<tool_vars, resolver_vars, WARN_LOG, call_vars, config_file, meant,
                   original_lines, config, idx, merger, total_pages_merged,
                   opened, exit_status>>

\* Lines 253-264: the summary; the process then ends with status 0.
Summary ==
    /\ pc = "summary"
    /\ printed' = printed
           \o <<Printed("Summary", 0, 0)>>
           \o (IF WARN_LOG # <<>>
               THEN <<Printed("Warnings", 0, Len(WARN_LOG))>> \o
                    [i \in 1..Len(WARN_LOG) |->
                        Printed("  - warning", WARN_LOG[i].line, 0)]
               ELSE <<>>)
           \o (IF ERROR_LOG # <<>>
               THEN <<Printed("Errors", 0, Len(ERROR_LOG))>> \o
                    [i \in 1..Len(ERROR_LOG) |->
                        Printed("  - error", ERROR_LOG[i].line, 0)]
               ELSE <<>>)
           \o (IF WARN_LOG = <<>> /\ ERROR_LOG = <<>>
               THEN <<Printed("No warnings or errors. All good!", 0, 0)>>
               ELSE <<>>)
    /\ pc' = "done"
    /\ exit_status' = "0"
    /\ UNCHANGED <<tool_vars, resolver_vars, log_vars, call_vars, config_file, meant,
                   original_lines, config, idx, merger, total_pages_merged,
                   output_file, opened>>

NextMerge ==
    \/ ConfigNotFound
    \/ ReadLine
    \/ StartMerge
    \/ MergeLine
    \/ WriteOutput
    \/ Summary

SpecMerge == InitMerge /\ [][NextMerge]_vars

--------------------------------------------------------------------------
(* Vocabulary of the properties: what a part means, stated on the part's   *)
(* meaning and not on its text.                                            *)

Called == page_indices # Pending

Returned == page_indices.kind = "return"

Raised == page_indices.kind = "raise"

Elements(seq) == { seq[i] : i \in 1..Len(seq) }

StrictlyAscending(seq) ==
    \A i, j \in 1..Len(seq) : i < j => seq[i] < seq[j]

AscendingListOf(seq, S) == Elements(seq) = S /\ StrictlyAscending(seq)

OnlyWhitespace(s) == \A i \in 1..Len(s) : s[i] \in Whitespace

Blank(p) == p.kind = "blank"

\* p is `last` on a document with pages, an in-range page, or an in-range
\* non-inverted range.
InRange(p, n) ==
    CASE p.kind = "last"  -> n > 0
      [] p.kind = "page"  -> 1 <= p.a /\ p.a <= n
      [] p.kind = "range" -> 1 <= p.a /\ p.a <= p.b /\ p.b <= n
      [] OTHER            -> FALSE

\* p is a single page or a range that is out of range or inverted.
Offending(p, n) == p.kind \in {"page", "range"} /\ ~InRange(p, n)

Denotes(p, n) ==
    CASE p.kind = "last"  -> {n - 1}
      [] p.kind = "page"  -> {p.a - 1}
      [] p.kind = "range" -> (p.a - 1)..(p.b - 1)
      [] OTHER            -> {}

DenotedBy(ps, n) == UNION { Denotes(ps[k], n) : k \in 1..Len(ps) }

HasNonBlank(ps) == \E k \in 1..Len(ps) : ~Blank(ps[k])

ValidSpec(ps, n) == \A k \in 1..Len(ps) : Blank(ps[k]) \/ InRange(ps[k], n)

AllPartsValid(ps, n) == ps # <<>> /\ \A k \in 1..Len(ps) : InRange(ps[k], n)

Bijections(n) ==
    { f \in [1..n -> 1..n] : \A i, j \in 1..n : f[i] = f[j] => i = j }

Permuted(ps, f) == [i \in 1..Len(ps) |-> ps[f[i]]]

InsertAt(ps, j, p) == SubSeq(ps, 1, j) \o <<p>> \o SubSeq(ps, j + 1, Len(ps))

RemoveAt(ps, k) == SubSeq(ps, 1, k - 1) \o SubSeq(ps, k + 1, Len(ps))

Resolved(ps) == parse_merge_page_string(Join(ps), num_input_pages)

\* The failure kind a message states: the three kinds of the spec's
\* taxonomy, and the format failure of the two except clauses.
FailureKind(msg) ==
    CASE msg = "Cannot get 'last' page from an empty PDF."    -> "EmptyDocumentError"
      [] msg = "Cannot use 'last' with an empty PDF."         -> "EmptyDocumentError"
      [] msg = "Invalid page range. Max page is total_pages."  -> "PageRangeError"
      [] msg = "Invalid page number. Max page is total_pages." -> "PageRangeError"
      [] msg = "Invalid page range format"                    -> "FormatError"
      [] msg = "Invalid page number format"                   -> "FormatError"
      [] msg = "Page string resulted in no pages."            -> "EmptyResultError"
      [] OTHER                                                -> "none"

SameOutcome(o1, o2) ==
    /\ o1.kind = o2.kind
    /\ o1.value = o2.value
    /\ FailureKind(o1.error) = FailureKind(o2.error)

--------------------------------------------------------------------------
\* C1: whenever the resolver returns, the list is strictly ascending (so
\* without duplicates) and every element i has 0 <= i < total_pages.
C1_AscendingInRange ==
    Returned =>
        /\ StrictlyAscending(page_indices.value)
        /\ \A i \in Elements(page_indices.value) :
               0 <= i /\ i < num_input_pages

C1_Witness ==
    /\ Returned
    /\ Len(written) >= 2
    /\ Len(page_indices.value) >= 3
    /\ written[1].kind = "range"

\* C2 as stated: for every valid spec string (every non-blank part is last,
\* an in-range page or an in-range range) and total_pages > 0, the resolver
\* returns the ascending list of the union of the parts' denotations.
C2_Original ==
    (Called /\ page_spec # None /\ num_input_pages > 0
        /\ ValidSpec(written, num_input_pages)) =>
        /\ Returned
        /\ AscendingListOf(page_indices.value,
                           DenotedBy(written, num_input_pages))

\* C2 amended: the same, for valid specs that have at least one non-blank
\* part.
C2_ValidSpecUnion ==
    (Called /\ page_spec # None /\ num_input_pages > 0
        /\ ValidSpec(written, num_input_pages) /\ HasNonBlank(written)) =>
        /\ Returned
        /\ AscendingListOf(page_indices.value,
                           DenotedBy(written, num_input_pages))

C2_Witness ==
    /\ Returned
    /\ ValidSpec(written, num_input_pages)
    /\ \E j, k \in 1..Len(written) :
          /\ written[j].kind = "range"
          /\ written[k].kind = "page"
          /\ Denotes(written[k], num_input_pages)
                 \subseteq Denotes(written[j], num_input_pages)

\* C3: for total_pages > 0, an absent or empty spec resolves to exactly
\* [0, 1, ..., total_pages - 1].
C3_EmptySpecAllPages ==
    (Called /\ num_input_pages > 0 /\ page_spec \in {None, <<>>}) =>
        page_indices = Return([i \in 1..num_input_pages |-> i - 1])

C3_Witness ==
    Called /\ page_spec = <<>> /\ num_input_pages >= 2

\* C4 as stated: with total_pages = 0 an empty or absent spec returns [],
\* and every non-empty spec string fails.
C4_Original ==
    (Called /\ num_input_pages = 0) =>
        IF page_spec \in {None, <<>>}
        THEN page_indices = Return(<<>>)
        ELSE Raised

\* C4 amended: with total_pages = 0 an absent, empty or whitespace-only
\* spec returns [], and every spec string with a non-whitespace character
\* fails.
C4_EmptyDocument ==
    (Called /\ num_input_pages = 0) =>
        IF page_spec = None \/ OnlyWhitespace(page_spec)
        THEN page_indices = Return(<<>>)
        ELSE Raised

C4_Witness ==
    /\ Raised
    /\ num_input_pages = 0
    /\ \A k \in 1..Len(written) : written[k].kind = "page"

\* C5 as stated: a list the resolver returns has at least one index.
C5_Original == Returned => Len(page_indices.value) >= 1

\* C5 amended: a list the resolver returns has at least one index, except
\* for an absent, empty or whitespace-only spec with total_pages = 0.
C5_NonEmptySelection ==
    (Returned /\ page_indices.value = <<>>) =>
        /\ num_input_pages = 0
        /\ page_spec = None \/ OnlyWhitespace(page_spec)

C5_Witness ==
    /\ Returned
    /\ num_input_pages > 0
    /\ Len(written) >= 2
    /\ Blank(written[1])
    /\ Len(page_indices.value) = 1

\* C6: a single page or a range that is out of range or inverted, anywhere
\* in the comma list, makes the whole resolve fail with no indices.
C6_OffendingPartFails ==
    (Called /\ \E k \in 1..Len(written) :
                   Offending(written[k], num_input_pages)) =>
        Raised /\ page_indices.value = <<>>

C6_Witness ==
    /\ Raised
    /\ Len(written) >= 2
    /\ Offending(written[Len(written)], num_input_pages)
    /\ \A k \in 1..(Len(written) - 1) : InRange(written[k], num_input_pages)

\* C7: for a spec whose parts are all valid, every permutation of the
\* parts, every repetition of a part and the removal of a part the others
\* cover resolve to the same list.
C7_OrderAndRepetition ==
    (Called /\ AllPartsValid(written, num_input_pages)) =>
        /\ \A f \in Bijections(Len(written)) :
               Resolved(Permuted(written, f)) = page_indices
        /\ \A k \in 1..Len(written), j \in 0..Len(written) :
               Resolved(InsertAt(written, j, written[k])) = page_indices
        /\ \A k \in 1..Len(written) :
               (Len(written) > 1
                   /\ Denotes(written[k], num_input_pages) \subseteq
                          DenotedBy(RemoveAt(written, k), num_input_pages)) =>
                   Resolved(RemoveAt(written, k)) = page_indices

C7_Witness ==
    /\ Returned
    /\ AllPartsValid(written, num_input_pages)
    /\ Len(written) >= 2
    /\ written[1].kind = "last"
    /\ written[2].kind = "range"

\* C8: the token last, in any letter case, alone or as one part of a list,
\* resolves to index total_pages - 1 when total_pages > 0 and makes the
\* resolve fail when total_pages = 0.
C8_LastToken ==
    (Called /\ \E k \in 1..Len(written) : written[k].kind = "last") =>
        /\ num_input_pages = 0 => Raised
        /\ (num_input_pages > 0 /\ Returned) =>
               (num_input_pages - 1) \in Elements(page_indices.value)
        /\ (num_input_pages > 0 /\ ValidSpec(written, num_input_pages)) =>
               Returned
        /\ (num_input_pages > 0 /\ Len(written) = 1) =>
               page_indices = Return(<<num_input_pages - 1>>)

C8_Witness ==
    /\ Returned
    /\ Len(written) >= 2
    /\ written[2].text = <<" ", "L", "a", "S", "t">>
    /\ written[1].kind = "page"

\* C9: for a spec with at least one non-blank part, inserting a blank part
\* anywhere or removing a blank part leaves the outcome unchanged.
C9_BlankPartsSkipped ==
    (Called /\ HasNonBlank(written)) =>
        /\ \A b \in BlankParts, j \in 0..Len(written) :
               SameOutcome(Resolved(InsertAt(written, j, b)), page_indices)
        /\ \A k \in 1..Len(written) :
               Blank(written[k]) =>
                   SameOutcome(Resolved(RemoveAt(written, k)), page_indices)

C9_Witness ==
    /\ Returned
    /\ Len(written) >= 2
    /\ written[1].kind = "range"
    /\ Blank(written[2])

\* C10: a spec of at least one comma whose parts are all blank fails with
\* the empty-result error, for every total_pages.
C10_OnlySeparators ==
    (Called /\ Len(written) >= 2
        /\ \A k \in 1..Len(written) : Blank(written[k])) =>
        page_indices = Raise("Page string resulted in no pages.")

C10_Witness ==
    /\ Raised
    /\ num_input_pages = 0
    /\ Len(written) = 2
    /\ written[1].text = <<" ">>
    /\ written[2].text = <<" ">>

\* The failure the loop detects first for the parts ps[k..], by what the
\* parts mean; some is whether an earlier part added an index.
RECURSIVE DetectedFrom(_, _, _, _)
DetectedFrom(ps, k, n, some) ==
    IF k > Len(ps)
    THEN IF some THEN "none" ELSE "EmptyResultError"
    ELSE CASE Blank(ps[k])                      -> DetectedFrom(ps, k + 1, n, some)
           [] ps[k].kind = "last" /\ n = 0      -> "EmptyDocumentError"
           [] Offending(ps[k], n)               -> "PageRangeError"
           [] InRange(ps[k], n)                 -> DetectedFrom(ps, k + 1, n, TRUE)
           [] OTHER                             -> "FormatError"

\* C11 as stated: the failure kind that reaches the caller is the kind
\* that was detected: last on an empty document is an empty-document
\* failure, an out-of-range page or an out-of-range or inverted range is a
\* page-range failure, a spec that yields no index an empty-result failure.
C11_KindReachesCaller ==
    (Raised /\ DetectedFrom(written, 1, num_input_pages, FALSE) \in
                   {"EmptyDocumentError", "PageRangeError", "EmptyResultError"}) =>
        FailureKind(page_indices.error) =
            DetectedFrom(written, 1, num_input_pages, FALSE)

\* C14 as stated: for 1 <= A <= total_pages the part A-last resolves to
\* the indices A-1 .. total_pages-1.
C14_RangeToLast ==
    (Called /\ Len(written) = 1 /\ written[1].kind = "to_last"
        /\ 1 <= written[1].a /\ written[1].a <= num_input_pages) =>
        /\ Returned
        /\ AscendingListOf(page_indices.value,
                           (written[1].a - 1)..(num_input_pages - 1))

\* C13 as stated: on every spec string and every total_pages >= 0 the
\* merge resolver and the split resolver both fail or both return the same
\* list.
C13_Original ==
    (Called /\ split_page_indices # Pending /\ page_spec # None) =>
        /\ page_indices.kind = split_page_indices.kind
        /\ page_indices.value = split_page_indices.value

\* C13 amended: the same, on every spec string that has a non-whitespace
\* character.
C13_SameResolvers ==
    (Called /\ split_page_indices # Pending /\ page_spec # None
        /\ ~OnlyWhitespace(page_spec)) =>
        /\ page_indices.kind = split_page_indices.kind
        /\ page_indices.value = split_page_indices.value

C13_Witness ==
    /\ Returned
    /\ split_page_indices.kind = "return"
    /\ Len(written) = 2
    /\ written[1].kind = "last"
    /\ written[2].kind = "range"
    /\ Len(page_indices.value) >= 2

\* C12: a step of a resolver call leaves ERROR_LOG and WARN_LOG as they
\* are, and two calls with the same spec and the same total_pages end with
\* the same outcome, whether one ran after the other or their steps
\* interleaved with each other and with appends to the logs.
C12_PureResolver ==
    [][CallStep =>
          /\ UNCHANGED log_vars
          /\ \A c, d \in Callers :
                 (/\ frame'[c].pc = "done"
                  /\ frame'[d].pc = "done"
                  /\ frame'[c].page_str = frame'[d].page_str
                  /\ frame'[c].total_pages = frame'[d].total_pages) =>
                     frame'[c].outcome = frame'[d].outcome]_vars

C12_Witness ==
    /\ overlap
    /\ \A c \in Callers : frame[c].pc = "done" /\ frame[c].outcome.kind = "return"
    /\ frame[1].page_str = frame[2].page_str
    /\ frame[1].total_pages = frame[2].total_pages
    /\ Len(frame[1].outcome.value) >= 2
    /\ ERROR_LOG # <<>>
    /\ WARN_LOG # <<>>

--------------------------------------------------------------------------
(* Vocabulary of the properties of a merge run, stated on what the lines   *)
(* of the configuration file mean.                                         *)

LinesMeant(kinds) == {i \in 1..Len(meant) : meant[i].kind \in kinds}

\* Line i has been read by the reader; the merge loop has passed it.
WasRead(i) == i <= Len(original_lines)

Passed(i) == pc \in {"merge", "summary", "done"} /\ i <= idx

EntriesOf(i) == {n \in 1..Len(config) : config[n].line_index = i - 1}

WarningsOf(i) == {k \in 1..Len(WARN_LOG) : WARN_LOG[k].line = i}

ErrorsOf(i) == {k \in 1..Len(ERROR_LOG) : ERROR_LOG[k].line = i}

PrintsOf(i) == {k \in 1..Len(printed) : printed[k].line = i}

\* The line was reported with the check mark; it was reported as an entry
\* that failed.
Succeeded(i) == \E k \in PrintsOf(i) : printed[k].kind = "ok"

FailedEntry(i) ==
    \E k \in ErrorsOf(i) :
        ERROR_LOG[k].tag = "LINE" /\ ERROR_LOG[k].msg # "Invalid line format."

PagesOf(m, i) == {k \in 1..Len(m.pages) : m.pages[k].line = i}

ItemsOf(m, i) == {k \in 1..Len(m.outline) : m.outline[k].line = i}

\* The base name of the files the lines name, extension stripped.
BaseName(f) ==
    CASE f = <<"a", ".", "p", "d", "f">>                -> <<"a">>
      [] f = <<"d", "/", "b", ".", "P", "D", "F">>      -> <<"b">>
      [] OTHER                                          -> <<>>

TitleMeant(i) == IF meant[i].T # None THEN meant[i].T ELSE BaseName(meant[i].f)

\* The pages line i resolves to, of the document read for it.
ResolvedIndices(i) ==
    parse_merge_page_string(config[CHOOSE n \in EntriesOf(i) : TRUE].pages,
                            opened[i].pages).value

ResolvedPages(i) ==
    [k \in 1..Len(ResolvedIndices(i)) |-> Page(i, ResolvedIndices(i)[k])]

RECURSIVE ExpectedPages(_)
ExpectedPages(i) ==
    IF i = 0 THEN <<>>
    ELSE ExpectedPages(i - 1) \o (IF Succeeded(i) THEN ResolvedPages(i) ELSE <<>>)

\* The console prints the summary heading.
SummaryPrinted == \E k \in 1..Len(printed) : printed[k].kind = "Summary"

\* The run has not ended before its summary: it is reading the file, in
\* the merge loop with a line or the write ahead, at the summary, or done
\* with status 0.
InProgress ==
    /\ pc \in {"read", "merge", "summary", "done"}
    /\ Len(original_lines) <= Len(config_file.lines)
    /\ idx <= Len(original_lines)
    /\ exit_status = (IF pc = "done" THEN "0" ELSE "running")

Reported(log, tag, msg) ==
    \E k \in 1..Len(log) : log[k].tag = tag /\ log[k].msg = msg

\* C15: a blank line and a line whose first non-whitespace character is #
\* leave no trace: no entry of config has its index, and no warning, no
\* error-log entry and no printed line is about it, whatever the other
\* lines of the file are.
C15_IgnoredSilently ==
    \A i \in LinesMeant({"blank", "comment"}) :
        /\ EntriesOf(i) = {}
        /\ WarningsOf(i) = {}
        /\ ErrorsOf(i) = {}
        /\ PrintsOf(i) = {}

C15_Witness ==
    /\ pc = "done"
    /\ Len(meant) = 2
    /\ meant[1].text = <<"#", "a", ".", "p", "d", "f">>
    /\ meant[2].kind = "entry"
    /\ Succeeded(2)
    /\ output_file.state = "written"

\* C16 as stated: a line of one of the four shapes, written for file f
\* with or without a title T and a page spec S, is read as an entry of
\* file f whose title is T, or absent when none was given, and whose page
\* spec is S, or absent when none was given; its bookmark is titled T or,
\* without T, with the base name of f without the extension; and without
\* S all pages of the document are added.
C16_FourShapes ==
    \A i \in LinesMeant({"entry"}) :
        /\ WasRead(i) =>
               /\ EntriesOf(i) # {}
               /\ \A n \in EntriesOf(i) :
                      /\ config[n].filename = meant[i].f
                      /\ config[n].bookmark = meant[i].T
                      /\ config[n].pages = meant[i].S
        /\ \A k \in ItemsOf(merger, i) : merger.outline[k].title = TitleMeant(i)
        /\ (Passed(i) /\ Succeeded(i) /\ meant[i].S = None) =>
               Cardinality(PagesOf(merger, i)) = opened[i].pages

\* C17: a line of no recognized shape gets a warning of its own, printed
\* and logged, when it is read; every line that is an entry is parsed into
\* an entry when it is read, whatever precedes it, and is processed when
\* the merge loop passes it: it is reported as merged or as an entry that
\* failed; and the run goes on to its summary.
C17_MalformedLineWarned ==
    /\ \A i \in LinesMeant({"malformed"}) :
           WasRead(i) =>
               /\ \E k \in WarningsOf(i) :
                      WARN_LOG[k] = LogEntry("CONFIG", i, "Invalid format. Skipping.", "")
               /\ \E k \in PrintsOf(i) :
                      printed[k].kind = "Warning: Invalid format. Skipping."
               /\ EntriesOf(i) = {}
    /\ \A i \in LinesMeant({"entry"}) :
           /\ WasRead(i) => Cardinality(EntriesOf(i)) = 1
           /\ Passed(i) => (Succeeded(i) \/ FailedEntry(i))
    /\ config_file.exists => InProgress

C17_Witness ==
    /\ pc = "done"
    /\ Len(meant) = 2
    /\ meant[1].kind = "malformed"
    /\ meant[2].kind = "entry"
    /\ Succeeded(2)
    /\ output_file.state = "written"
    /\ SummaryPrinted

\* C18 as stated, for the merge loop: an entry that failed is recorded as
\* exactly one error for its line and has added no page and no bookmark to
\* the output document, and every entry the loop has passed was processed.
C18_FailureContained ==
    \A i \in LinesMeant({"entry"}) :
        Passed(i) =>
            /\ Succeeded(i) \/ FailedEntry(i)
            /\ ~Succeeded(i) =>
                   /\ Cardinality(ErrorsOf(i)) = 1
                   /\ PagesOf(merger, i) = {}
                   /\ ItemsOf(merger, i) = {}

\* C19 as stated: the pages of the output are, in line order, the resolved
\* pages of the entries that succeeded; the bookmark of an entry that
\* succeeded targets the first page of that entry; and the bookmark targets
\* increase strictly and stay below the page count.
C19_LineOrder ==
    output_file.state = "written" =>
        /\ output_file.pages = ExpectedPages(idx)
        /\ \A i \in 1..idx :
               Succeeded(i) =>
                   \E k \in ItemsOf(output_file, i) :
                       /\ output_file.outline[k].target + 1 \in PagesOf(output_file, i)
                       /\ \A q \in PagesOf(output_file, i) :
                              output_file.outline[k].target + 1 <= q
        /\ \A k \in 1..Len(output_file.outline) :
               /\ output_file.outline[k].target < Len(output_file.pages)
               /\ k > 1 => output_file.outline[k - 1].target
                               < output_file.outline[k].target

C21_OnlyWriteFatal ==
    (pc \in {"done", "exit"} /\ config_file.exists) =>
        IF Reported(ERROR_LOG, "WRITE", "Error writing output file")
        THEN exit_status = "1"
        ELSE exit_status = "0" /\ SummaryPrinted

--------------------------------------------------------------------------
(* syn2GH.py: run_git_command, get_tracking_ref, process_repo and main.    *)
(* A git command is modelled by what the process gives back: its return    *)
(* code and whether it wrote anything to its standard output.              *)

MaxRepos == 2

Proc(rc, stdout) == [rc |-> rc, stdout |-> stdout]

Result(kind, value) == [kind |-> kind, value |-> value]

\* run_git_command, lines 34-60. A command run without capture leaves
\* e.stderr None, and the handler's e.stderr.strip() then raises
\* AttributeError in place of the RuntimeError of line 59.
run_git_command(proc, check, capture_output, silent) ==
    IF proc.rc # 0 /\ check
    THEN IF ~silent /\ ~capture_output
         THEN Result("AttributeError", "None")
         ELSE Result("RuntimeError", "None")
    ELSE IF ~silent /\ ~capture_output
         THEN Result("return", "CompletedProcess")
         ELSE Result("return", proc.stdout)

\* Python truth of a str or None.
truthy(v) == v \notin {"", "None"}

\* get_tracking_ref, lines 79-152: the upstream that rev-parse prints, or
\* the upstream set to origin/<branch> when ls-remote lists the branch.
get_tracking_ref(rev_parse, ls_remote, set_upstream) ==
    LET first == run_git_command(rev_parse, FALSE, TRUE, TRUE).value
        remote_branches == run_git_command(ls_remote, FALSE, TRUE, TRUE).value
        result == run_git_command(set_upstream, FALSE, TRUE, TRUE).value
    IN  IF truthy(first) THEN "upstream"
        ELSE IF truthy(remote_branches) /\ result # "None" THEN "origin/branch"
        ELSE "None"

Procs == {Proc(0, ""), Proc(0, "x"), Proc(1, "")}

Ran(r, cmd, ok) == [repo |-> r, cmd |-> cmd, ok |-> ok]

Error(r, step) == [repo |-> r, step |-> step]

Worktrees == [dirty : BOOLEAN, ahead : BOOLEAN, behind : BOOLEAN]

\* What git prints for a repository in state w.
status_porcelain(w) == IF w.dirty THEN Proc(0, "x") ELSE Proc(0, "")

log_to_push(w) == IF w.ahead THEN Proc(0, "x") ELSE Proc(0, "")

\* git diff --staged --quiet prints nothing; its return code tells whether
\* the index differs from HEAD.
diff_staged_quiet(anything_staged) ==
    IF anything_staged THEN Proc(1, "") ELSE Proc(0, "")

InitSync ==
    /\ NoPdf
    /\ sync_pc = "find"
    /\ git_dirs = 0
    /\ repo = 0
    /\ tracking_ref = "None"
    /\ staged_changes = "None"
    /\ errors = <<>>
    /\ issued = <<>>
    /\ worktree = [dirty |-> FALSE, ahead |-> FALSE, behind |-> FALSE]
    /\ staged = <<>>
    /\ sync_exit = "running"
    /\ uncaught = "None"
    /\ NoDelBranch
    /\ NoBranch
    /\ NoRepl

\* main, lines 336-362: the repositories are discovered; the run ends here
\* when the discovery fails or finds none.
FindRepos ==
    /\ sync_pc = "find"
    /\ \/ /\ sync_pc' = "exit"
          /\ sync_exit' = "1"
          /\ UNCHANGED <<git_dirs, repo, staged>>
       \/ \E found \in 0 .. MaxRepos :
            IF found = 0
            THEN /\ sync_pc' = "exit"
                 /\ sync_exit' = "0"
                 /\ UNCHANGED <<git_dirs, repo, staged>>
            ELSE /\ git_dirs' = found
                 /\ repo' = 1
                 /\ staged' = [r \in 1 .. found |-> [index |-> "unknown", ahead |-> FALSE]]
                 /\ sync_pc' = "validate"
                 /\ UNCHANGED sync_exit
    /\ UNCHANGED <<tracking_ref, staged_changes, errors, issued, worktree,
                   uncaught, pdf_vars, del_vars, branch_vars, repl_vars>>

\* process_repo returned: the loop of main (lines 363-364) goes on to the
\* next repository, or ends.
returned ==
    IF repo < git_dirs
    THEN /\ repo' = repo + 1
         /\ sync_pc' = "validate"
    ELSE /\ sync_pc' = "end"
         /\ UNCHANGED repo

\* An exception left process_repo; main does not catch it, and the
\* interpreter ends the process with a traceback and status 1.
propagated(exception) ==
    /\ uncaught' = exception
    /\ sync_pc' = "exit"
    /\ sync_exit' = "1"
    /\ UNCHANGED repo

\* process_repo, lines 154-179: the validation checks and the upstream.
Validate ==
    /\ sync_pc = "validate"
    /\ \E inside \in Procs, symbolic_ref \in Procs, get_url \in {Proc(0, "x"), Proc(1, "")},
          rev_parse \in {Proc(0, "x"), Proc(1, "")}, ls_remote \in {Proc(0, "x"), Proc(0, "")},
          w \in Worktrees :
        LET in_tree == run_git_command(inside, FALSE, TRUE, TRUE)
            branch_name == run_git_command(symbolic_ref, TRUE, TRUE, TRUE)
            url == run_git_command(get_url, TRUE, TRUE, TRUE)
        IN  IF \/ ~truthy(in_tree.value)
               \/ branch_name.kind = "RuntimeError"
               \/ ~truthy(branch_name.value)
               \/ url.kind = "RuntimeError"
            THEN /\ returned
                 /\ UNCHANGED <<tracking_ref, worktree>>
            ELSE /\ tracking_ref' = get_tracking_ref(rev_parse, ls_remote, Proc(0, ""))
                 /\ worktree' = w
                 /\ sync_pc' = "status"
                 /\ UNCHANGED repo
    /\ UNCHANGED <<git_dirs, staged_changes, errors, issued, staged, sync_exit,
                   uncaught, pdf_vars, del_vars, branch_vars, repl_vars>>

\* process_repo, lines 183-223: whether the repository needs action.
needs_action(status, rev_list, log, w) ==
    LET st == run_git_command(status, TRUE, TRUE, TRUE)
        counts == run_git_command(rev_list, FALSE, TRUE, TRUE).value
        commits_to_push == run_git_command(log, FALSE, TRUE, TRUE).value
    IN  IF st.kind = "RuntimeError" THEN TRUE
        ELSE IF truthy(st.value) THEN TRUE
        ELSE IF truthy(tracking_ref)
        THEN IF truthy(counts) THEN w.ahead \/ w.behind ELSE FALSE
        ELSE truthy(commits_to_push)

CheckStatus ==
    /\ sync_pc = "status"
    /\ \E status_ok \in BOOLEAN, rev_list_ok \in BOOLEAN :
        IF needs_action(IF status_ok THEN status_porcelain(worktree) ELSE Proc(1, ""),
                        IF rev_list_ok THEN Proc(0, "x") ELSE Proc(1, ""),
                        log_to_push(worktree), worktree)
        THEN /\ sync_pc' = "pull"
             /\ UNCHANGED repo
        ELSE returned
    /\ UNCHANGED <<git_dirs, tracking_ref, staged_changes, errors, issued,
                   worktree, staged, sync_exit, uncaught, pdf_vars, del_vars, branch_vars, repl_vars>>

\* process_repo, lines 225-270: the pull, and the report of what it brought.
Pull ==
    /\ sync_pc = "pull"
    /\ IF truthy(tracking_ref)
       THEN \E pull \in {Proc(0, ""), Proc(1, "")}, report \in {Proc(0, "x"), Proc(1, "")} :
            LET pulled == run_git_command(pull, TRUE, FALSE, FALSE)
                shown == run_git_command(report, TRUE, TRUE, TRUE)
            IN  /\ issued' = Append(issued, Ran(repo, "pull", pull.rc = 0))
                /\ IF pulled.kind = "RuntimeError"
                   THEN /\ errors' = Append(errors, Error(repo, "pull"))
                        /\ returned
                        /\ UNCHANGED <<worktree, uncaught, sync_exit>>
                   ELSE IF pulled.kind = "AttributeError"
                   THEN /\ propagated("AttributeError")
                        /\ UNCHANGED <<errors, worktree>>
                   ELSE IF worktree.behind /\ shown.kind = "RuntimeError"
                   THEN /\ propagated("RuntimeError")
                        /\ UNCHANGED <<errors, worktree>>
                   ELSE /\ worktree' = [worktree EXCEPT !.behind = FALSE]
                        /\ sync_pc' = "stage"
                        /\ UNCHANGED <<errors, repo, uncaught, sync_exit>>
       ELSE /\ sync_pc' = "stage"
            /\ UNCHANGED <<errors, issued, worktree, repo, uncaught, sync_exit>>
    /\ UNCHANGED <<git_dirs, tracking_ref, staged_changes, staged, pdf_vars, del_vars, branch_vars, repl_vars>>

\* process_repo, lines 272-279: git add -A, then the test of the index.
Stage ==
    /\ sync_pc = "stage"
    /\ \E add \in {Proc(0, ""), Proc(1, "")} :
        LET added == run_git_command(add, TRUE, FALSE, TRUE)
        IN  /\ issued' = Append(issued, Ran(repo, "add", add.rc = 0))
            /\ IF added.kind = "RuntimeError"
               THEN /\ propagated("RuntimeError")
                    /\ UNCHANGED <<staged_changes, staged>>
               ELSE /\ staged' = [staged EXCEPT ![repo] =
                                     [index |-> IF worktree.dirty THEN "changes" ELSE "nothing",
                                      ahead |-> worktree.ahead]]
                    /\ staged_changes' =
                         run_git_command(diff_staged_quiet(worktree.dirty),
                                         FALSE, TRUE, TRUE).value
                    /\ sync_pc' = "commit"
                    /\ UNCHANGED <<repo, uncaught, sync_exit>>
    /\ UNCHANGED <<git_dirs, tracking_ref, errors, worktree, pdf_vars, del_vars, branch_vars, repl_vars>>

\* process_repo, lines 281-303: the commit. git commit fails when nothing
\* is staged, and may fail for its own reasons (a hook, no identity).
Commit ==
    /\ sync_pc = "commit"
    /\ IF ~truthy(staged_changes)
       THEN \E accepted \in BOOLEAN, show \in {Proc(0, "x"), Proc(1, "")} :
            LET commit == IF staged[repo].index = "changes" /\ accepted
                          THEN Proc(0, "x") ELSE Proc(1, "")
                committed == run_git_command(commit, TRUE, FALSE, TRUE)
                commit_stat == run_git_command(show, TRUE, TRUE, TRUE)
            IN  /\ issued' = Append(issued, Ran(repo, "commit", commit.rc = 0))
                /\ worktree' = IF commit.rc = 0
                               THEN [worktree EXCEPT !.dirty = FALSE, !.ahead = TRUE]
                               ELSE worktree
                /\ IF committed.kind = "RuntimeError" \/ commit_stat.kind = "RuntimeError"
                   THEN /\ errors' = Append(errors, Error(repo, "commit"))
                        /\ returned
                   ELSE /\ sync_pc' = "push"
                        /\ UNCHANGED <<errors, repo>>
       ELSE /\ sync_pc' = "push"
            /\ UNCHANGED <<errors, issued, worktree, repo>>
    /\ UNCHANGED <<git_dirs, tracking_ref, staged_changes, staged, sync_exit,
                   uncaught, pdf_vars, del_vars, branch_vars, repl_vars>>

\* process_repo, lines 305-334: the push of the commits the remote lacks.
Push ==
    /\ sync_pc = "push"
    /\ LET commits_to_push ==
             run_git_command(log_to_push(worktree), FALSE, TRUE, TRUE).value
       IN  IF truthy(commits_to_push)
           THEN \E push \in {Proc(0, ""), Proc(1, "")} :
                LET pushed == run_git_command(push, TRUE, FALSE, TRUE)
                IN  /\ issued' = Append(issued, Ran(repo, "push", push.rc = 0))
                    /\ errors' = IF pushed.kind = "RuntimeError"
                                 THEN Append(errors, Error(repo, "push"))
                                 ELSE errors
                    /\ worktree' = IF push.rc = 0
                                   THEN [worktree EXCEPT !.ahead = FALSE]
                                   ELSE worktree
           ELSE UNCHANGED <<issued, errors, worktree>>
    /\ returned
    /\ UNCHANGED <<git_dirs, tracking_ref, staged_changes, staged, sync_exit,
                   uncaught, pdf_vars, del_vars, branch_vars, repl_vars>>

\* main, lines 366-377: the summary and the exit status.
exit_code(errs) == IF errs # <<>> THEN "1" ELSE "0"

End ==
    /\ sync_pc = "end"
    /\ sync_pc' = "exit"
    /\ sync_exit' = exit_code(errors)
    /\ UNCHANGED <<git_dirs, repo, tracking_ref, staged_changes, errors, issued,
                   worktree, staged, uncaught, pdf_vars, del_vars, branch_vars, repl_vars>>

NextSync ==
    \/ FindRepos
    \/ Validate
    \/ CheckStatus
    \/ Pull
    \/ Stage
    \/ Commit
    \/ Push
    \/ End

SpecSync == InitSync /\ [][NextSync]_vars

--------------------------------------------------------------------------
(* The vocabulary of the claims about syn2GH. *)

RanFor(r, cmd) == {i \in DOMAIN issued : issued[i].repo = r /\ issued[i].cmd = cmd}

Failed(r, cmd) == \E i \in RanFor(r, cmd) : ~issued[i].ok

ErrorsFor(r) == {i \in DOMAIN errors : errors[i].repo = r}

StepRank(cmd) ==
    CASE cmd = "pull" -> 1 [] cmd = "add" -> 2 [] cmd = "commit" -> 3 [] cmd = "push" -> 4

\* process_repo returned for repository r.
Finished(r) ==
    \/ repo > r
    \/ repo = r /\ sync_pc = "end"
    \/ repo = r /\ sync_pc = "exit" /\ uncaught = "None"

\* C22 as stated: for each repository the commands run in the order pull,
\* stage, commit, push; after a failed pull none of stage, commit and push
\* runs for the repository and exactly one error is recorded for it; after
\* a failed commit no push runs and exactly one error is recorded.
C22_PullStageCommitPush ==
    \A r \in 1 .. git_dirs :
        /\ \A i, j \in DOMAIN issued :
             (i < j /\ issued[i].repo = r /\ issued[j].repo = r)
                 => StepRank(issued[i].cmd) < StepRank(issued[j].cmd)
        /\ Failed(r, "pull") =>
             /\ RanFor(r, "add") \cup RanFor(r, "commit") \cup RanFor(r, "push") = {}
             /\ Cardinality(ErrorsFor(r)) = 1
        /\ Failed(r, "commit") =>
             /\ RanFor(r, "push") = {}
             /\ Cardinality(ErrorsFor(r)) = 1

\* C23 as stated: when git add -A left nothing staged, no commit is
\* attempted and no commit error is recorded, and once process_repo
\* returned, a repository that was ahead of its remote has been pushed.
C23_NothingStagedSkipsCommit ==
    \A r \in 1 .. git_dirs :
        staged[r].index = "nothing" =>
            /\ RanFor(r, "commit") = {}
            /\ \A i \in ErrorsFor(r) : errors[i].step # "commit"
            /\ (Finished(r) /\ staged[r].ahead) => RanFor(r, "push") # {}

\* C24 as stated: once the repositories were discovered, the process ends
\* only after process_repo was called for each of them, and its exit status
\* is 1 when an error was recorded and 0 when none was.
C24_EveryRepoThenStatus ==
    (sync_pc = "exit" /\ git_dirs > 0) =>
        /\ repo = git_dirs
        /\ sync_exit = (IF errors # <<>> THEN "1" ELSE "0")

--------------------------------------------------------------------------
(* git_delbranch.py: run_git_command, delete_branch and main.              *)

\* run_git_command, lines 11-25, called without capture: a failed command
\* with check set ends the process with status 1.
run_git_command_delbranch(rc, check) ==
    IF rc # 0 /\ check THEN "SystemExit" ELSE "return"

Protected == {"main", "master", "develop"}

BranchNames == Protected \cup {"feature", "Main"}

\* What the user may type at a prompt, the newline already removed.
Typed ==
    { <<"y", "e", "s">>, <<"Y", "E", "S">>, <<" ", "Y", "e", "s", " ">>,
      <<"y">>, <<"n", "o">>, <<>> }

Inputs == Typed \cup {EndOfInput}

Command(cmd, rc) == [cmd |-> cmd, rc |-> rc]

InitDelBranch ==
    /\ NoPdf
    /\ NoSync
    /\ NoBranch
    /\ NoRepl
    /\ del_pc = "start"
    /\ branch_to_delete \in BranchNames
    /\ branches \in [local : BOOLEAN, remote : BOOLEAN, unmerged : BOOLEAN, current : BOOLEAN]
    /\ branches.unmerged => branches.local
    /\ branches.current => branches.local
    /\ commands = <<>>
    /\ answers = [confirm |-> NotAsked, force |-> NotAsked]
    /\ del_exit = "running"

\* delete_branch, lines 30-42: the protected names, and the switch to main
\* when the branch is the current one.
DeleteStart ==
    /\ del_pc = "start"
    /\ IF branch_to_delete \in Protected
       THEN /\ del_pc' = "exit"
            /\ del_exit' = "1"
            /\ UNCHANGED <<commands, branches>>
       ELSE IF branches.current
       THEN \E rc \in {0, 1} :
            /\ commands' = Append(commands, Command("checkout main", rc))
            /\ IF run_git_command_delbranch(rc, TRUE) = "SystemExit"
               THEN /\ del_pc' = "exit"
                    /\ del_exit' = "1"
                    /\ UNCHANGED branches
               ELSE /\ del_pc' = "check"
                    /\ branches' = [branches EXCEPT !.current = FALSE]
                    /\ UNCHANGED del_exit
       ELSE /\ del_pc' = "check"
            /\ UNCHANGED <<commands, branches, del_exit>>
    /\ UNCHANGED <<branch_to_delete, answers, pdf_vars, sync_vars, branch_vars, repl_vars>>

\* input(...).strip().lower()
normalized(typed) == lower(strip(typed))

\* delete_branch, lines 44-72: the check for commits not merged into main.
\* The end of the input raises EOFError inside the try, and the handler of
\* line 71 passes.
CheckUnmerged ==
    /\ del_pc = "check"
    /\ IF branches.local /\ branches.unmerged
       THEN \E typed \in Inputs :
            /\ answers' = [answers EXCEPT !.confirm = typed]
            /\ IF typed # EndOfInput /\ normalized(typed) # <<"y", "e", "s">>
               THEN /\ del_pc' = "exit"
                    /\ del_exit' = "0"
               ELSE /\ del_pc' = "remote"
                    /\ UNCHANGED del_exit
       ELSE /\ del_pc' = "remote"
            /\ UNCHANGED <<answers, del_exit>>
    /\ UNCHANGED <<branch_to_delete, branches, commands, pdf_vars, sync_vars, branch_vars, repl_vars>>

\* delete_branch, lines 74-84: the remote branch.
DeleteRemote ==
    /\ del_pc = "remote"
    /\ \E rc \in {0, 1} :
        /\ rc = 0 => branches.remote
        /\ commands' = Append(commands, Command("push origin --delete", rc))
        /\ branches' = IF rc = 0 THEN [branches EXCEPT !.remote = FALSE] ELSE branches
    /\ del_pc' = "local"
    /\ UNCHANGED <<branch_to_delete, answers, del_exit, pdf_vars, sync_vars, branch_vars, repl_vars>>

\* delete_branch, lines 86-110: the local branch, by safe delete, and by
\* force delete when the safe delete failed and the user agrees.
DeleteLocal ==
    /\ del_pc = "local"
    /\ del_pc' = "exit"
    /\ \E rc \in {0, 1} :
        /\ rc = 0 => branches.local
        /\ IF rc = 0
           THEN /\ commands' = Append(commands, Command("branch -d", rc))
                /\ branches' = [branches EXCEPT !.local = FALSE]
                /\ del_exit' = "0"
                /\ UNCHANGED answers
           ELSE \E typed \in Inputs :
                /\ answers' = [answers EXCEPT !.force = typed]
                /\ IF typed # EndOfInput /\ normalized(typed) = <<"y", "e", "s">>
                   THEN \E forced \in {0, 1} :
                        /\ forced = 0 => branches.local
                        /\ commands' = commands \o <<Command("branch -d", rc),
                                                     Command("branch -D", forced)>>
                        /\ branches' = IF forced = 0
                                       THEN [branches EXCEPT !.local = FALSE]
                                       ELSE branches
                        /\ del_exit' =
                             IF run_git_command_delbranch(forced, TRUE) = "SystemExit"
                             THEN "1" ELSE "0"
                   ELSE /\ commands' = Append(commands, Command("branch -d", rc))
                        /\ del_exit' = "0"
                        /\ UNCHANGED branches
    /\ UNCHANGED <<branch_to_delete, pdf_vars, sync_vars, branch_vars, repl_vars>>

NextDelBranch ==
    \/ DeleteStart
    \/ CheckUnmerged
    \/ DeleteRemote
    \/ DeleteLocal

SpecDelBranch == InitDelBranch /\ [][NextDelBranch]_vars

--------------------------------------------------------------------------
(* The vocabulary of the claims about git_delbranch. *)

DeleteCommands == {"push origin --delete", "branch -d", "branch -D"}

Deletes == {i \in DOMAIN commands : commands[i].cmd \in DeleteCommands}

RemoteDeleted ==
    \E i \in DOMAIN commands :
        commands[i].cmd = "push origin --delete" /\ commands[i].rc = 0

\* C25 as stated: no delete command is issued for a branch named main,
\* master or develop; and for a branch with commits not merged into main a
\* delete command is issued only when the user typed exactly yes at the
\* confirmation prompt.
C25_ProtectedAndConfirmed ==
    /\ branch_to_delete \in Protected => Deletes = {}
    /\ (branches.unmerged /\ Deletes # {}) => answers.confirm = <<"y", "e", "s">>

\* C26 as stated: in no state has the run deleted the remote branch and
\* ended with the local branch still in place.
C26_LocalAndRemoteConsistent ==
    del_pc = "exit" => ~(RemoteDeleted /\ branches.local)

--------------------------------------------------------------------------
(* git_branch.py: run_git_command, start_branch, merge_and_delete, main.   *)

run_git_command_returns(rc, check) == "return"

\* run_git_command, lines 13-30, called without capture: a failed command
\* with check set raises SystemExit(1).
run_git_command_branch(rc, check) ==
    IF rc # 0 /\ check THEN "SystemExit" ELSE "return"

target_branch == "main"

Argvs ==
    { <<>>, <<"--done">>, <<"feature">>, <<"main", "--merge">>,
      <<"feature", "--merge">>, <<"feature", "--force">> }

InitBranch ==
    /\ NoPdf
    /\ NoSync
    /\ NoDelBranch
    /\ NoRepl
    /\ argv \in Argvs
    /\ merge_pc = "main"
    /\ feature_branch = "None"
    /\ steps = <<>>
    /\ user_input = NotAsked
    /\ merge_exit = "running"

\* One call run_git_command(command) whose SystemExit nothing catches:
\* the process ends with status 1, or the run goes on at the next step.
checked(cmd, rc, next) ==
    /\ steps' = Append(steps, Command(cmd, rc))
    /\ IF run_git_command_branch(rc, TRUE) = "SystemExit"
       THEN /\ merge_pc' = "exit"
            /\ merge_exit' = "1"
       ELSE /\ merge_pc' = next
            /\ UNCHANGED merge_exit

\* start_branch, lines 49-60: the branch is checked out, or created and
\* pushed; a failure of the push is ignored.
start_branch ==
    \E is_branch_exist \in BOOLEAN, checkout \in {0, 1}, push \in {0, 1} :
        LET failed == run_git_command_branch(checkout, TRUE) = "SystemExit"
        IN  /\ steps' =
                 IF is_branch_exist
                 THEN Append(steps, Command("checkout", checkout))
                 ELSE IF failed
                 THEN Append(steps, Command("checkout -b", checkout))
                 ELSE steps \o <<Command("checkout -b", checkout),
                                 Command("push -u origin", push)>>
            /\ merge_pc' = "exit"
            /\ merge_exit' = IF failed THEN "1" ELSE "0"

\* main, lines 142-167: the arguments select the operation. The current
\* branch of --done is what git symbolic-ref prints, None when it fails.
BranchMain ==
    /\ merge_pc = "main"
    /\ IF argv = <<>>
       THEN /\ merge_pc' = "exit"
            /\ merge_exit' = "1"
            /\ UNCHANGED <<feature_branch, steps>>
       ELSE IF argv[1] = "--done"
       THEN \E current_branch \in {"None", "main", "feature"} :
            IF current_branch = "None"
            THEN /\ merge_pc' = "exit"
                 /\ merge_exit' = "1"
                 /\ UNCHANGED <<feature_branch, steps>>
            ELSE /\ feature_branch' = current_branch
                 /\ merge_pc' = "start"
                 /\ UNCHANGED <<merge_exit, steps>>
       ELSE IF Len(argv) = 2 /\ argv[2] = "--merge"
       THEN /\ feature_branch' = argv[1]
            /\ merge_pc' = "start"
            /\ UNCHANGED <<merge_exit, steps>>
       ELSE IF Len(argv) = 1
       THEN /\ start_branch
            /\ UNCHANGED feature_branch
       ELSE /\ merge_pc' = "exit"
            /\ merge_exit' = "1"
            /\ UNCHANGED <<feature_branch, steps>>
    /\ UNCHANGED <<argv, user_input, pdf_vars, sync_vars, del_vars, repl_vars>>

\* merge_and_delete, lines 62-73: the safety check and the checkout of the
\* feature branch.
MergeStart ==
    /\ merge_pc = "start"
    /\ IF feature_branch = target_branch
       THEN /\ merge_pc' = "exit"
            /\ merge_exit' = "1"
            /\ UNCHANGED steps
       ELSE \E rc \in {0, 1} : checked("checkout feature", rc, "save")
    /\ UNCHANGED <<argv, feature_branch, user_input, pdf_vars, sync_vars, del_vars, repl_vars>>

\* merge_and_delete, lines 75-93: the auto-save. A failed push of the
\* feature branch is caught at line 92 and the run continues.
AutoSave ==
    /\ merge_pc = "save"
    /\ \E add \in {0, 1}, diff \in {0, 1}, commit \in {0, 1}, push \in {0, 1} :
        IF run_git_command_branch(add, TRUE) = "SystemExit" \/ diff = 0
        THEN checked("add", add, "update")
        ELSE IF run_git_command_branch(commit, TRUE) = "SystemExit"
        THEN /\ steps' = steps \o <<Command("add", add), Command("commit", commit)>>
             /\ merge_pc' = "exit"
             /\ merge_exit' = "1"
        ELSE /\ steps' = steps \o <<Command("add", add), Command("commit", commit),
                                    Command("push origin feature", push)>>
             /\ merge_pc' = "update"
             /\ UNCHANGED merge_exit
    /\ UNCHANGED <<argv, feature_branch, user_input, pdf_vars, sync_vars, del_vars, repl_vars>>

\* merge_and_delete, lines 95-98: the target branch is checked out and
\* brought up to date.
UpdateTarget ==
    /\ merge_pc = "update"
    /\ \E checkout \in {0, 1}, pull \in {0, 1} :
        IF run_git_command_branch(checkout, TRUE) = "SystemExit"
        THEN checked("checkout target", checkout, "merge")
        ELSE /\ steps' = steps \o <<Command("checkout target", checkout),
                                    Command("pull --rebase", pull)>>
             /\ IF run_git_command_branch(pull, TRUE) = "SystemExit"
                THEN /\ merge_pc' = "exit"
                     /\ merge_exit' = "1"
                ELSE /\ merge_pc' = "merge"
                     /\ UNCHANGED merge_exit
    /\ UNCHANGED <<argv, feature_branch, user_input, pdf_vars, sync_vars, del_vars, repl_vars>>

\* merge_and_delete, lines 100-119: the merge and the push of the target
\* branch; the SystemExit of either is caught at line 117 and raised again
\* as sys.exit(1).
MergeAndPush ==
    /\ merge_pc = "merge"
    /\ \E merge \in {0, 1}, push \in {0, 1} :
        IF run_git_command_branch(merge, TRUE) = "SystemExit"
        THEN checked("merge --no-ff", merge, "prompt")
        ELSE /\ steps' = steps \o <<Command("merge --no-ff", merge),
                                    Command("push origin target", push)>>
             /\ IF run_git_command_branch(push, TRUE) = "SystemExit"
                THEN /\ merge_pc' = "exit"
                     /\ merge_exit' = "1"
                ELSE /\ merge_pc' = "prompt"
                     /\ UNCHANGED merge_exit
    /\ UNCHANGED <<argv, feature_branch, user_input, pdf_vars, sync_vars, del_vars, repl_vars>>

\* merge_and_delete, lines 121-140: the deletion prompt and the two
\* deletions. The end of the input raises EOFError, which nothing catches.
PromptDelete ==
    /\ merge_pc = "prompt"
    /\ merge_pc' = "exit"
    /\ \E typed \in Inputs :
        /\ user_input' = typed
        /\ IF typed = EndOfInput
           THEN /\ merge_exit' = "1"
                /\ UNCHANGED steps
           ELSE IF normalized(typed) = <<"y", "e", "s">>
           THEN \E local \in {0, 1}, remote \in {0, 1} :
                /\ steps' = steps \o <<Command("branch -d", local),
                                       Command("push origin --delete", remote)>>
                /\ merge_exit' = "0"
           ELSE /\ merge_exit' = "0"
                /\ UNCHANGED steps
    /\ UNCHANGED <<argv, feature_branch, pdf_vars, sync_vars, del_vars, repl_vars>>

NextBranch ==
    \/ BranchMain
    \/ MergeStart
    \/ AutoSave
    \/ UpdateTarget
    \/ MergeAndPush
    \/ PromptDelete

SpecBranch == InitBranch /\ [][NextBranch]_vars

--------------------------------------------------------------------------
(* The vocabulary of the claims about git_branch. *)

BranchDeletes == {i \in DOMAIN steps : steps[i].cmd \in {"branch -d", "push origin --delete"}}

Step(i, cmd, rc) == i \in DOMAIN steps /\ steps[i].cmd = cmd /\ steps[i].rc = rc

StepFailed(cmd) == \E i \in DOMAIN steps : steps[i].cmd = cmd /\ steps[i].rc # 0

\* C27: a command that deletes the feature branch, locally or remotely, is
\* run only after the --no-ff merge returned 0, the push of the target
\* branch after it returned 0, and the user typed yes at the deletion
\* prompt (the answer is read with blanks stripped and in lower case); and
\* when the merge or the push of the target branch fails, the process has
\* ended with status 1 and no delete command was run.
C27_DeleteAfterMergePushYes ==
    /\ \A d \in BranchDeletes :
         /\ \E m, q \in 1 .. d - 1 :
              m < q /\ Step(m, "merge --no-ff", 0) /\ Step(q, "push origin target", 0)
         /\ user_input \in Typed
         /\ normalized(user_input) = <<"y", "e", "s">>
    /\ (StepFailed("merge --no-ff") \/ StepFailed("push origin target")) =>
         /\ merge_pc = "exit"
         /\ merge_exit = "1"
         /\ BranchDeletes = {}

\* The run merged, pushed, asked, and deleted the local branch.
C27_Witness ==
    /\ merge_pc = "exit"
    /\ merge_exit = "0"
    /\ \E d \in BranchDeletes : steps[d].cmd = "branch -d" /\ steps[d].rc = 0

--------------------------------------------------------------------------
(* regexrepl.py: Replacer and main. The content of the file is a sequence  *)
(* of pieces: "m" is a piece the pattern matches, "x" a piece between      *)
(* matches; "r" is what the replacement template expands to for a match.   *)

MaxPieces == 3

MaxPrompts == 4

RECURSIVE SeqsUpTo(_, _)
SeqsUpTo(S, n) ==
    IF n = 0 THEN {<<>>}
    ELSE LET shorter == SeqsUpTo(S, n - 1)
         IN  shorter \cup {Append(q, e) : q \in shorter, e \in S}

Contents == SeqsUpTo({"m", "x"}, MaxPieces)

\* The positions in text of the matches re.sub finds, left to right.
matches(text) == {i \in DOMAIN text : text[i] = "m"}

RECURSIVE match_number(_, _)
match_number(text, i) ==
    IF i = 0 THEN 0
    ELSE match_number(text, i - 1) + (IF text[i] = "m" THEN 1 ELSE 0)

\* re.sub(find_pattern, replacer.replace_match, content): every match is
\* replaced by what replace_match returned for it.
sub(text, returned_texts) ==
    [i \in DOMAIN text |->
        IF text[i] = "m" /\ returned_texts[match_number(text, i)] = "new"
        THEN "r" ELSE text[i]]

\* What may be typed at the prompt of replace_match.
Choices ==
    { <<"y">>, <<"n">>, <<"a">>, <<"q">>, <<"Q", " ">>, <<"A">>, <<"x">> }

\* input(...).lower().strip()
choice_of(typed) == strip(lower(typed))

decision_quit_keeps(choice) ==
    CASE choice = <<"y">> -> "replace"
      [] choice = <<"n">> -> "keep"
      [] choice = <<"a">> -> "all"
      [] choice = <<"q">> -> "keep"
      [] OTHER -> "again"

decision_all_once(choice) ==
    CASE choice = <<"y">> -> "replace"
      [] choice = <<"n">> -> "keep"
      [] choice = <<"a">> -> "replace"
      [] choice = <<"q">> -> "quit"
      [] OTHER -> "again"

\* replace_match, lines 42-56: the branch a choice takes.
decision(choice) ==
    CASE choice = <<"y">> -> "replace"
      [] choice = <<"n">> -> "keep"
      [] choice = <<"a">> -> "all"
      [] choice = <<"q">> -> "quit"
      [] OTHER -> "again"

Asked(k, typed) == [match |-> k, typed |-> typed]

InitRepl ==
    /\ NoPdf
    /\ NoSync
    /\ NoDelBranch
    /\ NoBranch
    /\ repl_pc = "main"
    /\ \/ target_file = NoFile
       \/ \E text \in Contents :
            target_file = [exists |-> TRUE, content |-> text, written |-> FALSE]
    /\ backup_file = NoFile
    /\ content = <<>>
    /\ decided = <<>>
    /\ replacer = [replace_all |-> FALSE, count |-> 0]
    /\ prompts = <<>>
    /\ repl_exit = "running"

\* re.sub called replace_match for every match: main goes on at line 88.
after_match(returned_texts) ==
    repl_pc' = IF Len(returned_texts) = Cardinality(matches(content))
               THEN "write" ELSE "sub"

\* main, lines 58-86: the file is read, the backup written, the Replacer
\* made and the pattern compiled. A missing file ends the run with status
\* 1; a failure of the backup or of the compilation is reported by the
\* handlers of lines 96-101 and the run ends normally.
ReplMain ==
    /\ repl_pc = "main"
    /\ IF ~target_file.exists
       THEN /\ repl_pc' = "exit"
            /\ repl_exit' = "1"
            /\ UNCHANGED <<backup_file, content>>
       ELSE \E outcome \in {"ok", "backup fails", "re.error"} :
            /\ content' = target_file.content
            /\ backup_file' =
                 IF outcome = "backup fails" THEN backup_file
                 ELSE [exists |-> TRUE, content |-> target_file.content, written |-> TRUE]
            /\ IF outcome = "ok"
               THEN /\ repl_pc' = IF matches(target_file.content) = {}
                                  THEN "write" ELSE "sub"
                    /\ UNCHANGED repl_exit
               ELSE /\ repl_pc' = "exit"
                    /\ repl_exit' = "0"
    /\ UNCHANGED <<target_file, decided, replacer, prompts,
                   pdf_vars, sync_vars, del_vars, branch_vars>>

\* replace_match, lines 21-29: replace_all is set, nothing is asked.
ReplaceAll ==
    /\ repl_pc = "sub"
    /\ replacer.replace_all
    /\ replacer' = [replacer EXCEPT !.count = replacer.count + 1]
    /\ decided' = Append(decided, "new")
    /\ after_match(decided')
    /\ UNCHANGED <<target_file, backup_file, content, prompts, repl_exit,
                   pdf_vars, sync_vars, del_vars, branch_vars>>

\* replace_match, lines 31-56: one input() at the prompt for the match, and
\* the branch taken on it. The end of the input raises EOFError, which the
\* handler of line 100 reports.
Answer ==
    /\ repl_pc = "sub"
    /\ ~replacer.replace_all
    /\ \E typed \in Choices \cup {EndOfInput} :
        LET taken == IF typed = EndOfInput THEN "EOFError"
                     ELSE decision(choice_of(typed))
        IN  /\ taken = "again" => Len(prompts) + 1 < MaxPrompts
            /\ prompts' = Append(prompts, Asked(Len(decided) + 1, typed))
            /\ replacer' =
                 [replace_all |-> replacer.replace_all \/ taken = "all",
                  count |-> IF taken \in {"replace", "all"}
                            THEN replacer.count + 1 ELSE replacer.count]
            /\ decided' =
                 IF taken \in {"replace", "all"} THEN Append(decided, "new")
                 ELSE IF taken = "keep" THEN Append(decided, "original")
                 ELSE decided
            /\ IF taken \in {"quit", "EOFError"}
               THEN /\ repl_pc' = "exit"
                    /\ repl_exit' = "0"
               ELSE /\ after_match(decided')
                    /\ UNCHANGED repl_exit
    /\ UNCHANGED <<target_file, backup_file, content,
                   pdf_vars, sync_vars, del_vars, branch_vars>>

\* main, lines 88-94: the file is written when a replacement was made.
WriteResult ==
    /\ repl_pc = "write"
    /\ target_file' =
         IF replacer.count > 0
         THEN [exists |-> TRUE, content |-> sub(content, decided), written |-> TRUE]
         ELSE target_file
    /\ repl_pc' = "exit"
    /\ repl_exit' = "0"
    /\ UNCHANGED <<backup_file, content, decided, replacer, prompts,
                   pdf_vars, sync_vars, del_vars, branch_vars>>

NextRepl ==
    \/ ReplMain
    \/ ReplaceAll
    \/ Answer
    \/ WriteResult

SpecRepl == InitRepl /\ [][NextRepl]_vars

--------------------------------------------------------------------------
(* The vocabulary of the claims about regexrepl. *)

Chose(i, c) == prompts[i].typed # EndOfInput /\ choice_of(prompts[i].typed) = c

AllDecided == Len(decided) = Cardinality(matches(content))

Replaced == {k \in DOMAIN decided : decided[k] = "new"}

\* C28: when q was answered at a prompt, the file still has the content
\* the run read and was not written, whatever was answered before; and the
\* file is written only when replace_match has returned for every match
\* and count is positive.
C28_QuitLeavesFile ==
    /\ (\E i \in DOMAIN prompts : Chose(i, <<"q">>)) =>
         /\ ~target_file.written
         /\ target_file.content = content
    /\ target_file.written => (AllDecided /\ replacer.count > 0)

\* A match was replaced on the answer y, and a later prompt was answered q.
C28_Witness ==
    /\ repl_pc = "exit"
    /\ replacer.count > 0
    /\ \E i, j \in DOMAIN prompts : i < j /\ Chose(i, <<"y">>) /\ Chose(j, <<"q">>)

\* In every state count is the number of matches replaced so far, and an
\* answer a is the last prompt of the run, with its match and every later
\* match handed to replace_match replaced and replace_all set.
AllFromHere ==
    /\ replacer.count = Cardinality(Replaced)
    /\ \A i \in DOMAIN prompts :
         Chose(i, <<"a">>) =>
             /\ i = Len(prompts)
             /\ replacer.replace_all
             /\ Len(decided) >= prompts[i].match
             /\ \A k \in DOMAIN decided : k >= prompts[i].match => decided[k] = "new"

\* C29: once a was answered at a match, that match and every later match
\* are replaced with no further prompt, count is at every point the number
\* of matches replaced so far, and replace_all, once true, stays true.
C29_AllSticks ==
    /\ []AllFromHere
    /\ [][replacer.replace_all => replacer'.replace_all]_vars

\* a was answered, and a later match was replaced without a prompt.
C29_Witness ==
    /\ prompts # <<>>
    /\ Chose(Len(prompts), <<"a">>)
    /\ Len(decided) > prompts[Len(prompts)].match
    /\ replacer.count >= 2

====
